---- MODULE Spec2Model ----
(***************************************************************************)
(* Display-buffer cache, partial update and locking of                     *)
(* source/blender/imbuf/intern/colormanagement.c, as a state machine over  *)
(* one image buffer (ImBuf).                                               *)
(*                                                                         *)
(* Conventions                                                             *)
(*  - C arrays are functions over 0..n-1, so the index arithmetic of the   *)
(*    source is kept verbatim; a NULL array is the empty function NullBuf. *)
(*  - Pointers to cached image buffers are ids 1..MaxObjs into `heap`;     *)
(*    NULL is 0.                                                           *)
(*  - A float channel value is an integer in units of 1/255, so that the   *)
(*    byte <-> float conversions of the source are exact up to clamping.   *)
(*  - Names of views, displays and looks are tuples <<kind, i>>; the       *)
(*    catalog lists map them to 1-based indices, 0 for an unknown name.    *)
(***************************************************************************)
EXTENDS Integers, Sequences, FiniteSets, TLC

VARIABLES
  ibuf,      \* the ImBuf: pixels, dither, userflags, display_buffer_flags,
             \* invalid_rect, colormanage_cache
  heap,      \* cached display ImBufs (cache_ibuf), by id
  handles,   \* cache handles the callers hold and have not released yet
  curve_ts,  \* CurveMapping.changed_timestamp of the one curve mapping
  varied,    \* which setting the callers of this run vary between requests
  ret,       \* what the last operation did and returned
  pc,        \* per thread: position inside the running operation
  loc,       \* per thread: locals of the running operation
  lock,      \* holder of LOCK_COLORMANAGE, 0 when free
  pin,       \* inputs and output of a function that is run alone
  catalog,   \* the file's globals that colormanagement_init fills: displays,
             \* views, looks and the colour space names of the roles
  passed     \* pixels handed to the delayed update since the pending
             \* rectangle was last consumed

vars == <<ibuf, heap, handles, curve_ts, varied, ret, pc, loc, lock, pin, catalog, passed>>

(***************************************************************************)
(* Bounds                                                                  *)
(***************************************************************************)
NumDisplays == 1
NumViews == 2
Width == 1
Height == 1
MaxHandles == 1
MaxTimestamp == 1
RectW == 3
RectH == 2
NumCallers == 2
PoolThreads == 2

NULL == 0
NullBuf == [i \in {} |-> 0]
DISPLAY_BUFFER_CHANNELS == 4

Min(a, b) == IF a < b THEN a ELSE b
Max(a, b) == IF a > b THEN a ELSE b

RECURSIVE Pow2(_)
Pow2(n) == IF n <= 0 THEN 1 ELSE 2 * Pow2(n - 1)

\* word & mask, for a mask with a single bit set
BitAnd(word, mask) == IF (word \div mask) % 2 = 1 THEN mask ELSE 0
\* word | mask, for a mask with a single bit set
BitOr(word, mask) == IF BitAnd(word, mask) = 0 THEN word + mask ELSE word

(***************************************************************************)
(* Catalog: global_displays, global_views, global_looks (the no-op look,    *)
(* a look for every view, and a look of its own for each view)             *)
(***************************************************************************)
global_tot_display == NumDisplays
global_tot_view == NumViews

global_displays == [i \in 1..NumDisplays |-> [name |-> <<"display", i>>, index |-> i]]
global_views == [i \in 1..NumViews |-> [name |-> <<"view", i>>, index |-> i]]
global_looks ==
  << [name |-> <<"look", "1">>, index |-> 1, is_noop |-> TRUE, process_space |-> "",
      view |-> <<>>],
     [name |-> <<"look", "2">>, index |-> 2, is_noop |-> FALSE, process_space |-> "look space",
      view |-> <<>>] >>
    \o [v \in 1..NumViews |->
          [name |-> <<"view", v, " ", "-", " ", "look">>, index |-> 2 + v, is_noop |-> FALSE,
           process_space |-> "", view |-> <<"view", v>>]]

\* first element of the list with that name, its index; 0 when there is none
NamedIndex(list, name) ==
  IF \E i \in DOMAIN list : list[i].name = name
    THEN list[CHOOSE i \in DOMAIN list :
                /\ list[i].name = name
                /\ \A j \in DOMAIN list : list[j].name = name => i <= j].index
    ELSE 0

IMB_colormanagement_display_get_named_index(name) == NamedIndex(global_displays, name)
IMB_colormanagement_view_get_named_index(name) == NamedIndex(global_views, name)
IMB_colormanagement_look_get_named_index(name) == NamedIndex(global_looks, name)

\* a NULL name, and the NULL look description (index 0)
NoName == <<>>
NoLook == [name |-> NoName, index |-> 0, is_noop |-> FALSE, process_space |-> "", view |-> NoName]

colormanage_look_get_named(name) ==
  IF \E i \in DOMAIN global_looks : global_looks[i].name = name
    THEN global_looks[CHOOSE i \in DOMAIN global_looks : global_looks[i].name = name]
    ELSE NoLook

\* OCIO_configGetDisplayColorSpaceName: the first view of a display shows in
\* the display's own colour space, every other view in a space of its own
IMB_colormanagement_get_display_colorspace_name(view_settings, display_settings) ==
  LET v == IMB_colormanagement_view_get_named_index(view_settings.view_transform)
      d == IMB_colormanagement_display_get_named_index(display_settings.display_device)
  IN IF v = 0 \/ d = 0 THEN NoName
     ELSE IF v = 1 THEN <<"colorspace", d, 0>> ELSE <<"colorspace", d, v>>

global_role_scene_linear == <<"colorspace", 0, 0>>

\* global_colorspaces: scene linear, the space of the other roles, a data
\* space, and the spaces the displays show their views in; the last view of a
\* display shows data (a raw view)
global_colorspaces ==
  LET names == << <<"colorspace", 0, 0>>, <<"colorspace", 0, 1>>, <<"colorspace", 0, 2>> >>
                 \o [d \in 1..NumDisplays |-> <<"colorspace", d, 0>>]
                 \o [d \in 1..NumDisplays |-> <<"colorspace", d, NumViews>>]
  IN [i \in DOMAIN names |->
        [name |-> names[i], index |-> i,
         is_data |-> (names[i] = <<"colorspace", 0, 2>> \/ (i > 3 + NumDisplays))]]

\* the NULL colour space (index 0)
NoColorSpace == [name |-> NoName, index |-> 0, is_data |-> FALSE]

colormanage_colorspace_get_named(name) ==
  IF \E i \in DOMAIN global_colorspaces : global_colorspaces[i].name = name
    THEN global_colorspaces[CHOOSE i \in DOMAIN global_colorspaces :
                              global_colorspaces[i].name = name]
    ELSE NoColorSpace

(***************************************************************************)
(* Initialization / de-initialization: the configuration of the transform  *)
(* engine and the globals that are loaded from it                          *)
(***************************************************************************)
\* a NULL backup role
NoRole == ""

\* colormanage_load_config, "get roles": the global, the role and the backup role
RoleTable ==
  << [global |-> "global_role_data", role |-> "data", backup_role |-> NoRole],
     [global |-> "global_role_scene_linear", role |-> "scene_linear", backup_role |-> NoRole],
     [global |-> "global_role_color_picking", role |-> "color_picking", backup_role |-> NoRole],
     [global |-> "global_role_texture_painting", role |-> "texture_paint",
      backup_role |-> NoRole],
     [global |-> "global_role_default_sequencer", role |-> "default_sequencer",
      backup_role |-> "scene_linear"],
     [global |-> "global_role_default_byte", role |-> "default_byte",
      backup_role |-> "texture_paint"],
     [global |-> "global_role_default_float", role |-> "default_float",
      backup_role |-> "scene_linear"] >>

RoleGlobals == {RoleTable[i].global : i \in DOMAIN RoleTable}
Roles == {RoleTable[i].role : i \in DOMAIN RoleTable}

\* a configuration of the engine: its displays with their views, its looks,
\* and the roles it resolves (a colour space name, NoName when it has none)
NoConfig ==
  [null |-> TRUE, displays |-> <<>>, looks |-> <<>>, roles |-> [r \in Roles |-> NoName]]

OCIO_configGetColorSpace(config, name) ==
  IF name \in DOMAIN config.roles THEN config.roles[name] ELSE NoName

\* the globals before the first colormanagement_init (static storage, zeroed)
ZeroCatalog ==
  [displays |-> <<>>, views |-> <<>>, looks |-> <<>>,
   global_tot_display |-> 0, global_tot_view |-> 0, global_tot_looks |-> 0,
   roles |-> [g \in RoleGlobals |-> NoName]]

\* a role that is not found leaves colorspace_name as it is
colormanage_role_color_space_name_get(config, colorspace_name, role, backup_role) ==
  LET first == OCIO_configGetColorSpace(config, role)
      ociocs == IF first = NoName /\ backup_role # NoRole
                  THEN OCIO_configGetColorSpace(config, backup_role) ELSE first
  IN IF ociocs # NoName THEN ociocs ELSE colorspace_name

colormanage_display_add(displays, name, views) ==
  LET index == IF displays # <<>> THEN displays[Len(displays)].index ELSE 0
  IN Append(displays, [name |-> name, index |-> index + 1, views |-> views])

colormanage_view_add(cat, name) ==
  [cat EXCEPT !.views = Append(@, [name |-> name, index |-> cat.global_tot_view + 1]),
              !.global_tot_view = @ + 1]

\* sizeof of the name, ui_name and view of a look
MAX_COLORSPACE_NAME == 64

\* BLI_strncpy into a zeroed buffer: at most maxncpy - 1 characters of src
BLI_strncpy(src, maxncpy) ==
  IF Len(src) <= maxncpy - 1 THEN src ELSE SubSeq(src, 1, maxncpy - 1)

\* the offset of the first occurrence of needle in haystack; -1 for NULL
strstr(haystack, needle) ==
  LET at == {o \in 0..(Len(haystack) - Len(needle)) :
               \A k \in 1..Len(needle) : haystack[o + k] = needle[k]}
  IN IF at = {} THEN -1 ELSE CHOOSE o \in at : \A q \in at : o <= q

LookSeparator == <<" ", "-", " ">>

\* an add that looks for no separator
colormanage_look_add_global(cat, name, process_space, is_noop) ==
  [cat EXCEPT !.looks = Append(@, [name |-> BLI_strncpy(name, MAX_COLORSPACE_NAME),
                                   ui_name |-> BLI_strncpy(name, MAX_COLORSPACE_NAME),
                                   index |-> cat.global_tot_looks + 1,
                                   is_noop |-> is_noop, process_space |-> process_space,
                                   view |-> NoName]),
              !.global_tot_looks = @ + 1]

\* a name is a sequence of characters; the names of the sections above have
\* no separator in them
colormanage_look_add(cat, name, process_space, is_noop) ==
  LET look_name == BLI_strncpy(name, MAX_COLORSPACE_NAME)
      separator_offset == strstr(look_name, LookSeparator)
  IN [cat EXCEPT
        !.looks =
           Append(@, [name |-> look_name,
                      ui_name |->
                        IF separator_offset # -1
                          THEN BLI_strncpy(
                                 SubSeq(look_name, separator_offset + Len(LookSeparator) + 1,
                                        Len(look_name)),
                                 MAX_COLORSPACE_NAME)
                          ELSE BLI_strncpy(name, MAX_COLORSPACE_NAME),
                      index |-> cat.global_tot_looks + 1,
                      is_noop |-> is_noop, process_space |-> process_space,
                      view |-> IF separator_offset # -1
                                 THEN BLI_strncpy(look_name, separator_offset + 1)
                                 ELSE NoName]),
        !.global_tot_looks = @ + 1]

\* colormanage_load_config, "load views" of one display: a view is added
\* unless a view of that name was loaded already
RECURSIVE LoadViews(_, _, _)
LoadViews(cat, viewnames, viewindex) ==
  IF viewindex > Len(viewnames) THEN cat
  ELSE LoadViews(IF \E i \in DOMAIN cat.views : cat.views[i].name = viewnames[viewindex]
                   THEN cat ELSE colormanage_view_add(cat, viewnames[viewindex]),
                 viewnames, viewindex + 1)

RECURSIVE LoadDisplays(_, _, _)
LoadDisplays(cat, config, index) ==
  IF index > Len(config.displays) THEN cat
  ELSE LoadDisplays(
         LoadViews([cat EXCEPT !.displays =
                      colormanage_display_add(@, config.displays[index].name,
                                              config.displays[index].views)],
                   config.displays[index].views, 1),
         config, index + 1)

RECURSIVE LoadLooks(_, _, _)
LoadLooks(cat, config, index) ==
  IF index > Len(config.looks) THEN cat
  ELSE LoadLooks(colormanage_look_add(cat, config.looks[index].name,
                                      config.looks[index].process_space, FALSE),
                 config, index + 1)

colormanage_load_config(cat, config) ==
  LET roles == [g \in RoleGlobals |->
                  LET e == RoleTable[CHOOSE i \in DOMAIN RoleTable : RoleTable[i].global = g]
                  IN colormanage_role_color_space_name_get(config, cat.roles[g], e.role,
                                                           e.backup_role)]
      Looks(c) == LoadLooks(colormanage_look_add(c, <<"look", "1">>, "", TRUE), config, 1)
      Displays(c) == Looks([c EXCEPT !.global_tot_display = Len(config.displays)])
  IN Displays(LoadDisplays([cat EXCEPT !.roles = roles], config, 1))

\* a teardown that empties the lists and leaves the view and look counters
colormanage_free_config_keep_counters(cat) ==
  [cat EXCEPT !.displays = <<>>, !.global_tot_display = 0, !.views = <<>>, !.looks = <<>>]

colormanage_free_config(cat) ==
  [cat EXCEPT !.displays = <<>>, !.global_tot_display = 0,
              !.views = <<>>, !.global_tot_view = 0,
              !.looks = <<>>, !.global_tot_looks = 0]

\* the configuration this file's globals are loaded from in the sections
\* below: NumDisplays displays, each with the same NumViews views
ModelConfig ==
  [null |-> FALSE,
   displays |-> [d \in 1..NumDisplays |->
                   [name |-> <<"display", d>>, views |-> [v \in 1..NumViews |-> <<"view", v>>]]],
   looks |-> << [name |-> <<"look", "2">>, process_space |-> "look space"] >>,
   roles |-> [r \in Roles |-> IF r = "scene_linear" THEN global_role_scene_linear
                              ELSE <<"colorspace", 0, 1>>]]

LoadedCatalog == colormanage_load_config(ZeroCatalog, ModelConfig)

(***************************************************************************)
(* The transform engine (OCIO) and the curve mapping evaluation, external  *)
(* to this file: deterministic maps on channel values, distinct for        *)
(* distinct pipelines.                                                     *)
(***************************************************************************)
NoCpuProcessor ==
  [null |-> TRUE, look |-> NoName, view |-> NoName, display |-> NoName,
   scale |-> 1, exponent_den |-> 1, from |-> NoName, to |-> NoName]
NoCurve == [null |-> TRUE, revision |-> 0]
NoProcessor ==
  [null |-> TRUE, cpu_processor |-> NoCpuProcessor, curve_mapping |-> NoCurve,
   is_data_result |-> FALSE]

\* OCIO_createDisplayProcessor: NULL for a view or display the config lacks
OCIO_createDisplayProcessor(from, view, display, look, scale, exponent_den) ==
  IF IMB_colormanagement_view_get_named_index(view) = 0
     \/ IMB_colormanagement_display_get_named_index(display) = 0
    THEN NoCpuProcessor
    ELSE [null |-> FALSE, look |-> look, view |-> view, display |-> display,
          scale |-> scale, exponent_den |-> exponent_den, from |-> from, to |-> NoName]

\* OCIO_configGetProcessorWithNames and OCIO_processorGetCPUProcessor: NULL for
\* a colour space the config lacks
OCIO_configGetProcessorWithNames(from, to) ==
  IF colormanage_colorspace_get_named(from).index = 0
     \/ colormanage_colorspace_get_named(to).index = 0
    THEN NoCpuProcessor
    ELSE [null |-> FALSE, look |-> NoName, view |-> NoName, display |-> NoName,
          scale |-> 1, exponent_den |-> 1, from |-> from, to |-> to]

\* OCIO_cpuProcessorApplyRGB on one colour channel value
OCIO_cpuProcessorApply(p, v) ==
  (v * p.scale) \div p.exponent_den
    + 3 * IMB_colormanagement_view_get_named_index(p.view)
    + 7 * IMB_colormanagement_display_get_named_index(p.display)
    + (IF p.look = NoName THEN 0 ELSE 13)
    + 17 * colormanage_colorspace_get_named(p.to).index
    - (IF p.to = NoName THEN 0 ELSE 2 * colormanage_colorspace_get_named(p.from).index)

\* colour space -> scene linear, on one colour channel value
OCIO_toSceneLinear(from, v) ==
  IF from = NoName \/ from = global_role_scene_linear THEN v ELSE v \div 2 + 1

\* curve_mapping_apply_pixel / BKE_curvemapping_evaluate_premulRGBF
curve_mapping_apply(curve, v) == v + 1 + curve.revision

unit_float_to_uchar_clamp(f) == IF f <= 0 THEN 0 ELSE IF f >= 255 THEN 255 ELSE f

\* the noise IMB_buffer_byte_from_float adds before it quantises
dither_value(v, dither, x, y) == IF dither = 0 THEN v ELSE v + dither * (1 + ((x + y) % 2))

(***************************************************************************)
(* Internal functions                                                      *)
(***************************************************************************)
\* a test that takes a look for every view
colormanage_compatible_look_any(look, view_name) == TRUE

colormanage_compatible_look(look, view_name) ==
  IF look.is_noop THEN TRUE
  ELSE look.view = NoName \/ (view_name # NoName /\ look.view = view_name)

colormanage_use_look(look, view_name) ==
  LET look_descr == colormanage_look_get_named(look)
  IN look_descr.is_noop = FALSE /\ colormanage_compatible_look(look_descr, view_name)

\* NoColorSpace, whose is_data is the zero of the allocation, for NULL
display_transform_get_colorspace(view_settings, display_settings) ==
  LET colorspace_name ==
        IMB_colormanagement_get_display_colorspace_name(view_settings, display_settings)
  IN IF colorspace_name # NoName THEN colormanage_colorspace_get_named(colorspace_name)
     ELSE NoColorSpace

create_display_buffer_processor(look, view_transform, display, exposure, gamma, from) ==
  LET use_look == colormanage_use_look(look, view_transform)
      scale == IF exposure = 0 THEN 1 ELSE Pow2(exposure)
      exponent_den == IF gamma = 1 THEN 1 ELSE Max(1, gamma)
  IN OCIO_createDisplayProcessor(from, view_transform, display,
                                 IF use_look THEN look ELSE NoName, scale, exponent_den)

\* cts: the changed_timestamp of the caller's curve mapping, whose copy the
\* processor owns
IMB_colormanagement_display_processor_new(view_settings, display_settings, cts) ==
  [null |-> FALSE,
   is_data_result |-> display_transform_get_colorspace(view_settings, display_settings).is_data,
   cpu_processor |->
     create_display_buffer_processor(view_settings.look, view_settings.view_transform,
                                     display_settings.display_device,
                                     view_settings.exposure, view_settings.gamma,
                                     global_role_scene_linear),
   curve_mapping |->
     IF "COLORMANAGE_VIEW_USE_CURVES" \in view_settings.flag
          /\ view_settings.curve_mapping # NULL
       THEN [null |-> FALSE, revision |-> cts]
       ELSE NoCurve]

create_colorspace_transform_processor(from_colorspace, to_colorspace) ==
  OCIO_configGetProcessorWithNames(from_colorspace, to_colorspace)

\* a constructor that gives no processor when the engine gives none
IMB_colormanagement_colorspace_processor_new_or_null(from_colorspace, to_colorspace) ==
  IF create_colorspace_transform_processor(from_colorspace, to_colorspace).null
    THEN NoProcessor
    ELSE [null |-> FALSE,
          is_data_result |-> colormanage_colorspace_get_named(to_colorspace).is_data,
          cpu_processor |->
            create_colorspace_transform_processor(from_colorspace, to_colorspace),
          curve_mapping |-> NoCurve]

\* the processor is allocated whatever the engine returns; a to_colorspace
\* that is not in global_colorspaces is read through a NULL pointer there
IMB_colormanagement_colorspace_processor_new(from_colorspace, to_colorspace) ==
  [null |-> FALSE,
   is_data_result |-> colormanage_colorspace_get_named(to_colorspace).is_data,
   cpu_processor |-> create_colorspace_transform_processor(from_colorspace, to_colorspace),
   curve_mapping |-> NoCurve]

\* channel c of a pixel with alpha a through IMB_colormanagement_processor_apply_v4,
\* _v4_predivide and _v3
IMB_colormanagement_processor_apply_v4(cm_processor, v, c) ==
  LET curved == IF ~cm_processor.curve_mapping.null /\ (c < 3)
                  THEN curve_mapping_apply(cm_processor.curve_mapping, v) ELSE v
  IN IF ~cm_processor.cpu_processor.null /\ c < 3
       THEN OCIO_cpuProcessorApply(cm_processor.cpu_processor, curved)
       ELSE curved

IMB_colormanagement_processor_apply_v4_predivide(cm_processor, v, a, c) ==
  LET curved == IF ~cm_processor.curve_mapping.null /\ (c < 3)
                  THEN curve_mapping_apply(cm_processor.curve_mapping, v) ELSE v
  IN IF ~cm_processor.cpu_processor.null /\ c < 3
       THEN IF a # 0 /\ a # 255
              THEN (OCIO_cpuProcessorApply(cm_processor.cpu_processor, (curved * 255) \div a)
                      * a) \div 255
              ELSE OCIO_cpuProcessorApply(cm_processor.cpu_processor, curved)
       ELSE curved

IMB_colormanagement_processor_apply_v3(cm_processor, v, c) ==
  LET curved == IF ~cm_processor.curve_mapping.null
                  THEN curve_mapping_apply(cm_processor.curve_mapping, v) ELSE v
  IN IF ~cm_processor.cpu_processor.null
       THEN OCIO_cpuProcessorApply(cm_processor.cpu_processor, curved)
       ELSE curved

\* channel c of a byte pixel: to float, apply_v4, back to a byte
IMB_colormanagement_processor_apply_byte(cm_processor, v, c) ==
  unit_float_to_uchar_clamp(IMB_colormanagement_processor_apply_v4(cm_processor, v, c))

\* one channel c of a pixel through IMB_colormanagement_processor_apply_pixel;
\* the alpha of a pixel of 4 channels is not between none and full.  A
\* channel count other than 1, 3 or 4 fails the assertion of the function
\* and, where assertions are compiled out, leaves the pixel as it is.
IMB_colormanagement_processor_apply_pixel(cm_processor, v, c, channels) ==
  LET curved == IF ~cm_processor.curve_mapping.null /\ (c < 3)
                  THEN curve_mapping_apply(cm_processor.curve_mapping, v) ELSE v
  IN IF channels \in {3, 4}
       THEN IF ~cm_processor.cpu_processor.null /\ c < 3
              THEN OCIO_cpuProcessorApply(cm_processor.cpu_processor, curved)
              ELSE curved
     ELSE IF channels = 1 THEN curved
     ELSE v

\* IMB_colormanagement_processor_apply with the engine first and the curve
\* mapping after it
IMB_colormanagement_processor_apply_engine_first(cm_processor, v, c, channels) ==
  LET transformed == IF ~cm_processor.cpu_processor.null /\ channels >= 3 /\ c < 3
                       THEN OCIO_cpuProcessorApply(cm_processor.cpu_processor, v) ELSE v
  IN IF ~cm_processor.curve_mapping.null /\ (c < 3)
       THEN curve_mapping_apply(cm_processor.curve_mapping, transformed)
       ELSE transformed

\* one channel c of a pixel through IMB_colormanagement_processor_apply
IMB_colormanagement_processor_apply(cm_processor, v, c, channels) ==
  LET curved == IF ~cm_processor.curve_mapping.null /\ (c < 3)
                  THEN curve_mapping_apply(cm_processor.curve_mapping, v) ELSE v
  IN IF ~cm_processor.cpu_processor.null /\ channels >= 3 /\ c < 3
       THEN OCIO_cpuProcessorApply(cm_processor.cpu_processor, curved)
       ELSE curved

\* a test that never finds the byte buffer in display space
is_ibuf_rect_in_display_space_never(ib, view_settings, display_settings) == FALSE

is_ibuf_rect_in_display_space(ib, view_settings, display_settings) ==
  IF "COLORMANAGE_VIEW_USE_CURVES" \notin view_settings.flag
     /\ view_settings.exposure = 0 /\ view_settings.gamma = 1
    THEN LET from_colorspace == ib.rect_colorspace
             to_colorspace ==
               IMB_colormanagement_get_display_colorspace_name(view_settings, display_settings)
             look_descr == colormanage_look_get_named(view_settings.look)
         IN IF look_descr.index # 0 /\ look_descr.process_space # ""
              THEN FALSE
              ELSE to_colorspace # NoName /\ from_colorspace = to_colorspace
    ELSE FALSE

(***************************************************************************)
(* Buffer conversions of the image buffer library (divers.c) and alpha     *)
(* helpers.  rect_to + to_off and rect_from + from_off are the pointers    *)
(* the caller passes; strides are in pixels.  A write that falls outside   *)
(* rect_to is dropped.                                                     *)
(***************************************************************************)
straight_to_premul(v, a) == (v * a) \div 255
premul_to_straight(v, a) == IF a = 0 \/ a = 255 THEN v ELSE (v * 255) \div a

IMB_buffer_byte_from_float(rect_to, to_off, rect_from, from_off, channels_from, dither, width, height, stride_to, stride_from) ==
  [i \in DOMAIN rect_to |->
     LET rel == i - to_off
         y == rel \div (stride_to * 4)
         x == (rel % (stride_to * 4)) \div 4
         c == rel % 4
         base == from_off + (stride_from * y + x) * channels_from
     IN IF rel >= 0 /\ y < height /\ x < width
          THEN IF channels_from = 1
                 THEN unit_float_to_uchar_clamp(dither_value(rect_from[base], dither, x, y))
               ELSE IF c < 3
                 THEN unit_float_to_uchar_clamp(dither_value(rect_from[base + c], dither, x, y))
               ELSE IF channels_from = 4
                 THEN unit_float_to_uchar_clamp(rect_from[base + 3])
               ELSE 255
          ELSE rect_to[i]]

\* into a fresh float buffer of width * height RGBA pixels
IMB_buffer_float_from_byte(rect_from, from_off, width, height, stride_to, stride_from) ==
  [k \in 0..(4 * width * height - 1) |->
     LET y == (k \div 4) \div stride_to
         x == (k \div 4) % stride_to
         c == k % 4
     IN rect_from[from_off + (stride_from * y + x) * 4 + c]]

IMB_buffer_byte_from_byte(rect_to, to_off, rect_from, from_off, width, height, stride_to, stride_from) ==
  [i \in DOMAIN rect_to |->
     LET rel == i - to_off
         y == rel \div (stride_to * 4)
         x == (rel % (stride_to * 4)) \div 4
         c == rel % 4
     IN IF rel >= 0 /\ y < height /\ x < width
          THEN rect_from[from_off + (stride_from * y + x) * 4 + c]
          ELSE rect_to[i]]

(***************************************************************************)
(* Threaded display buffer computation                                     *)
(***************************************************************************)
\* IMB_processor_apply_threaded: the row ranges [start_line, tot_line] of the
\* tasks, contiguous and in ascending order
TaskRanges(buffer_lines) ==
  LET lines_per_task == Max(1, (buffer_lines + PoolThreads - 1) \div PoolThreads)
      tot_task == (buffer_lines + lines_per_task - 1) \div lines_per_task
  IN [k \in 1..tot_task |->
        [start_line |-> (k - 1) * lines_per_task,
         tot_line |-> Min(lines_per_task, buffer_lines - (k - 1) * lines_per_task)]]

display_buffer_init_handle(ib, cm_processor, start_line, tot_line) ==
  LET channels == ib.channels
      offset == channels * start_line * ib.x
  IN [cm_processor |-> cm_processor,
      buffer_null |-> (ib.rect_float = NullBuf),
      buffer_off |-> offset,
      byte_buffer_off |-> offset,
      display_buffer_byte_off |-> DISPLAY_BUFFER_CHANNELS * start_line * ib.x,
      width |-> ib.x,
      start_line |-> start_line,
      tot_line |-> tot_line,
      channels |-> channels,
      dither |-> ib.dither,
      is_data |-> ib.is_data,
      byte_colorspace |-> ib.rect_colorspace]

\* the float buffer of one task before the processor is applied, and whether
\* it has straight alpha
display_buffer_apply_get_linear_buffer(ib, handle, height) ==
  LET channels == handle.channels
      is_data_display == handle.cm_processor.is_data_result
  IN IF handle.buffer_null
       THEN [k \in 0..(channels * handle.width * height - 1) |->
               LET v == ib.rect[handle.byte_buffer_off + k]
               IN IF ~handle.is_data /\ ~is_data_display /\ (k % channels) < 3
                    THEN OCIO_toSceneLinear(handle.byte_colorspace, v)
                    ELSE v]
       ELSE [k \in 0..(channels * handle.width * height - 1) |->
               ib.rect_float[handle.buffer_off + k]]

do_display_buffer_apply_thread(ib, handle, display_buffer_byte) ==
  LET cm_processor == handle.cm_processor
      channels == handle.channels
      width == handle.width
      height == handle.tot_line
  IN IF cm_processor.null
       THEN IMB_buffer_byte_from_byte(display_buffer_byte, handle.display_buffer_byte_off,
                                      ib.rect, handle.byte_buffer_off,
                                      width, height, width, width)
       ELSE LET linear == display_buffer_apply_get_linear_buffer(ib, handle, height)
                applied == [k \in DOMAIN linear |->
                              IF handle.is_data THEN linear[k]
                              ELSE IMB_colormanagement_processor_apply(
                                     cm_processor, linear[k], k % channels, channels)]
            IN IMB_buffer_byte_from_float(display_buffer_byte,
                                          handle.display_buffer_byte_off,
                                          applied, 0, channels, handle.dither,
                                          width, height, width, width)

RECURSIVE display_buffer_apply_tasks(_, _, _, _, _)
display_buffer_apply_tasks(ib, cm_processor, tasks, k, display_buffer_byte) ==
  IF k > Len(tasks) THEN display_buffer_byte
  ELSE display_buffer_apply_tasks(
         ib, cm_processor, tasks, k + 1,
         do_display_buffer_apply_thread(
           ib,
           display_buffer_init_handle(ib, cm_processor, tasks[k].start_line, tasks[k].tot_line),
           display_buffer_byte))

display_buffer_apply_threaded(ib, display_buffer_byte, cm_processor) ==
  display_buffer_apply_tasks(ib, cm_processor, TaskRanges(ib.y), 1, display_buffer_byte)

\* colormanage_display_buffer_process on a zeroed display buffer
colormanage_display_buffer_process(ib, display_buffer, view_settings, display_settings, cts) ==
  LET skip_transform ==
        IF ib.rect_float = NullBuf /\ ib.rect_colorspace # NoName
          THEN is_ibuf_rect_in_display_space(ib, view_settings, display_settings)
          ELSE FALSE
      cm_processor ==
        IF skip_transform = FALSE
          THEN IMB_colormanagement_display_processor_new(view_settings, display_settings, cts)
          ELSE NoProcessor
  IN display_buffer_apply_threaded(ib, display_buffer, cm_processor)

(***************************************************************************)
(* Colour space transform of a float buffer, threaded or not               *)
(***************************************************************************)
\* OCIO_cpuProcessorApply or OCIO_cpuProcessorApply_predivide on channel c of
\* a pixel with alpha a
OCIO_cpuProcessorApplyImage(p, v, a, c, channels, predivide) ==
  IF c >= 3 THEN v
  ELSE IF predivide /\ channels = 4 /\ a # 0 /\ a # 255
    THEN straight_to_premul(OCIO_cpuProcessorApply(p, premul_to_straight(v, a)), a)
  ELSE OCIO_cpuProcessorApply(p, v)

\* IMB_colormanagement_processor_apply on the width * height pixels that start
\* at buffer + offset
processor_apply_at(cm_processor, buffer, offset, width, height, channels, predivide) ==
  [k \in DOMAIN buffer |->
     IF k >= offset /\ k < offset + channels * width * height
       THEN LET c == (k - offset) % channels
                curved == IF ~cm_processor.curve_mapping.null /\ c < 3
                            THEN curve_mapping_apply(cm_processor.curve_mapping, buffer[k])
                            ELSE buffer[k]
            IN IF ~cm_processor.cpu_processor.null /\ channels >= 3
                 THEN OCIO_cpuProcessorApplyImage(
                        cm_processor.cpu_processor, curved,
                        IF channels = 4 THEN buffer[k - c + 3] ELSE 255,
                        c, channels, predivide)
                 ELSE curved
       ELSE buffer[k]]

\* IMB_colormanagement_processor_apply_byte on the width * height pixels, of
\* 4 channels as the function asserts, that start at buffer + offset
processor_apply_byte_at(cm_processor, buffer, offset, width, height, channels) ==
  [k \in DOMAIN buffer |->
     IF k >= offset /\ k < offset + channels * width * height
       THEN IMB_colormanagement_processor_apply_byte(cm_processor, buffer[k],
                                                     (k - offset) % channels)
       ELSE buffer[k]]

\* the offsets are those of handle->byte_buffer and handle->float_buffer from
\* the start of the buffers of init_data
processor_transform_init_handle(init_data, start_line, tot_line) ==
  [cm_processor |-> init_data.cm_processor,
   byte_buffer_off |-> init_data.channels * start_line * init_data.width,
   float_buffer_off |-> init_data.channels * start_line * init_data.width,
   width |-> init_data.width,
   start_line |-> start_line,
   tot_line |-> tot_line,
   channels |-> init_data.channels,
   predivide |-> init_data.predivide]

\* with float_from_byte false; bufs holds the byte and the float buffer, a
\* NULL buffer is NullBuf
do_processor_transform_thread(handle, bufs) ==
  [byte_buffer |->
     IF bufs.byte_buffer # NullBuf
       THEN processor_apply_byte_at(handle.cm_processor, bufs.byte_buffer,
                                    handle.byte_buffer_off, handle.width, handle.tot_line,
                                    handle.channels)
       ELSE bufs.byte_buffer,
   float_buffer |->
     IF bufs.float_buffer # NullBuf
       THEN processor_apply_at(handle.cm_processor, bufs.float_buffer,
                               handle.float_buffer_off, handle.width, handle.tot_line,
                               handle.channels, handle.predivide)
       ELSE bufs.float_buffer]

RECURSIVE processor_transform_tasks(_, _, _, _)
processor_transform_tasks(init_data, tasks, k, bufs) ==
  IF k > Len(tasks) THEN bufs
  ELSE processor_transform_tasks(
         init_data, tasks, k + 1,
         do_processor_transform_thread(
           processor_transform_init_handle(init_data, tasks[k].start_line, tasks[k].tot_line),
           bufs))

processor_transform_apply_threaded(byte_buffer, float_buffer, width, height, channels, cm_processor, predivide) ==
  processor_transform_tasks(
    [cm_processor |-> cm_processor, width |-> width, height |-> height,
     channels |-> channels, predivide |-> predivide],
    TaskRanges(height), 1, [byte_buffer |-> byte_buffer, float_buffer |-> float_buffer])

\* the buffers after the call and the number of processors it built
TransformDone(byte_buffer, float_buffer, processors) ==
  [byte_buffer |-> byte_buffer, float_buffer |-> float_buffer, processors |-> processors]

\* colormanagement_transform_ex from the creation of the processor on
colormanagement_transform_apply(byte_buffer, float_buffer, width, height, channels, from_colorspace, to_colorspace, predivide, do_threaded) ==
  LET Apply(cm_processor) ==
        IF do_threaded
          THEN processor_transform_apply_threaded(byte_buffer, float_buffer, width, height,
                                                  channels, cm_processor, predivide)
          ELSE [byte_buffer |->
                  IF byte_buffer # NullBuf
                    THEN processor_apply_byte_at(cm_processor, byte_buffer, 0, width, height,
                                                 channels)
                    ELSE byte_buffer,
                float_buffer |->
                  IF float_buffer # NullBuf
                    THEN processor_apply_at(cm_processor, float_buffer, 0, width, height,
                                            channels, predivide)
                    ELSE float_buffer]
      Built(bufs) == TransformDone(bufs.byte_buffer, bufs.float_buffer, 1)
  IN Built(Apply(IMB_colormanagement_colorspace_processor_new(from_colorspace, to_colorspace)))

\* colormanagement_transform_ex without its test for equal names
colormanagement_transform_ex_no_streq(byte_buffer, float_buffer, width, height, channels, from_colorspace, to_colorspace, predivide, do_threaded) ==
  IF from_colorspace = NoName THEN TransformDone(byte_buffer, float_buffer, 0)
  ELSE colormanagement_transform_apply(byte_buffer, float_buffer, width, height, channels,
                                       from_colorspace, to_colorspace, predivide, do_threaded)

\* an empty from_colorspace is NoName
colormanagement_transform_ex(byte_buffer, float_buffer, width, height, channels, from_colorspace, to_colorspace, predivide, do_threaded) ==
  IF from_colorspace = NoName THEN TransformDone(byte_buffer, float_buffer, 0)
  ELSE IF from_colorspace = to_colorspace THEN TransformDone(byte_buffer, float_buffer, 0)
  ELSE colormanagement_transform_apply(byte_buffer, float_buffer, width, height, channels,
                                       from_colorspace, to_colorspace, predivide, do_threaded)

IMB_colormanagement_transform(buffer, width, height, channels, from_colorspace, to_colorspace, predivide) ==
  colormanagement_transform_ex(NullBuf, buffer, width, height, channels, from_colorspace,
                               to_colorspace, predivide, FALSE)

IMB_colormanagement_transform_threaded(buffer, width, height, channels, from_colorspace, to_colorspace, predivide) ==
  colormanagement_transform_ex(NullBuf, buffer, width, height, channels, from_colorspace,
                               to_colorspace, predivide, TRUE)

IMB_colormanagement_transform_byte(buffer, width, height, channels, from_colorspace, to_colorspace) ==
  colormanagement_transform_ex(buffer, NullBuf, width, height, channels, from_colorspace,
                               to_colorspace, FALSE, FALSE)

IMB_colormanagement_transform_byte_threaded(buffer, width, height, channels, from_colorspace, to_colorspace) ==
  colormanagement_transform_ex(buffer, NullBuf, width, height, channels, from_colorspace,
                               to_colorspace, FALSE, TRUE)

\* the pixel after the call and the number of processors it built
IMB_colormanagement_transform_v4(pixel, from_colorspace, to_colorspace) ==
  LET Apply(cm_processor) ==
        [c \in DOMAIN pixel |-> IMB_colormanagement_processor_apply_v4(cm_processor, pixel[c], c)]
  IN IF from_colorspace = NoName THEN [pixel |-> pixel, processors |-> 0]
     ELSE IF from_colorspace = to_colorspace THEN [pixel |-> pixel, processors |-> 0]
     ELSE [pixel |-> Apply(IMB_colormanagement_colorspace_processor_new(from_colorspace,
                                                                        to_colorspace)),
           processors |-> 1]

(***************************************************************************)
(* Partial display buffer update                                           *)
(***************************************************************************)
\* channel c of `pixel` after the per-pixel work of the cm_processor branch
\* of partial_buffer_update_rect, before it is stored
partial_pixel(ib, linear_buffer, byte_buffer, linear_stride, linear_offset_x, linear_offset_y, cm_processor, channels, x, y, c) ==
  LET linear_index == ((y - linear_offset_y) * linear_stride + (x - linear_offset_x)) * channels
      loaded ==
        IF linear_buffer # NullBuf
          THEN IF channels = 4 THEN linear_buffer[linear_index + c]
               ELSE IF channels = 3
                 THEN (IF c < 3 THEN linear_buffer[linear_index + c] ELSE 255)
               ELSE linear_buffer[linear_index]
          ELSE LET a == byte_buffer[linear_index + 3]
               IN IF c < 3
                    THEN straight_to_premul(
                           OCIO_toSceneLinear(ib.rect_colorspace, byte_buffer[linear_index + c]),
                           a)
                    ELSE a
  IN IF ~ib.is_data
       THEN IMB_colormanagement_processor_apply_pixel(cm_processor, loaded, c, channels)
       ELSE loaded

\* the channels per pixel of display_buffer_float, the intermediate float buffer
\* of a partial update with dither
display_buffer_float_channels(ib, cm_processor) ==
  IF ib.dither # 0 /\ cm_processor.null THEN 4 ELSE ib.channels

\* display_index, where the quantised intermediate buffer is written to
dither_display_index(ib, cm_processor, display_stride, xmin, ymin) ==
  (ymin * display_stride + xmin) * display_buffer_float_channels(ib, cm_processor)

partial_buffer_update_rect(ib, display_buffer, linear_buffer, byte_buffer, display_stride, linear_stride, linear_offset_x, linear_offset_y, cm_processor, xmin, ymin, xmax, ymax) ==
  LET dither == ib.dither
      width == xmax - xmin
      height == ymax - ymin
      channels == display_buffer_float_channels(ib, cm_processor)
      use_float == (dither # 0)
      Pixel(x, y, c) ==
        partial_pixel(ib, linear_buffer, byte_buffer, linear_stride,
                      linear_offset_x, linear_offset_y, cm_processor, channels, x, y, c)
      \* the display buffer after the first branch
      direct ==
        IF ~cm_processor.null
          THEN IF use_float THEN display_buffer
               ELSE [i \in DOMAIN display_buffer |->
                       IF \E y \in ymin..(ymax - 1), x \in xmin..(xmax - 1) :
                            i \div 4 = y * display_stride + x
                         THEN LET q == CHOOSE q \in (ymin..(ymax - 1)) \X (xmin..(xmax - 1)) :
                                         i \div 4 = q[1] * display_stride + q[2]
                                  c == i % 4
                              IN IF channels = 4
                                   THEN unit_float_to_uchar_clamp(
                                          IF c < 3
                                            THEN premul_to_straight(Pixel(q[2], q[1], c),
                                                                    Pixel(q[2], q[1], 3))
                                            ELSE Pixel(q[2], q[1], 3))
                                 ELSE IF channels = 3
                                   THEN (IF c < 3
                                           THEN unit_float_to_uchar_clamp(Pixel(q[2], q[1], c))
                                           ELSE 255)
                                 ELSE unit_float_to_uchar_clamp(Pixel(q[2], q[1], 0))
                         ELSE display_buffer[i]]
          ELSE IF use_float THEN display_buffer
               ELSE [i \in DOMAIN display_buffer |->
                       IF \E r \in ymin..(ymax - 1) :
                            /\ i >= (display_stride * r + xmin) * 4
                            /\ i < (display_stride * r + xmin) * 4 + 4 * width
                         THEN LET r == CHOOSE r \in ymin..(ymax - 1) :
                                         /\ i >= (display_stride * r + xmin) * 4
                                         /\ i < (display_stride * r + xmin) * 4 + 4 * width
                              IN byte_buffer[(linear_stride * r + xmin) * 4
                                             + (i - (display_stride * r + xmin) * 4)]
                         ELSE display_buffer[i]]
      display_buffer_float ==
        IF ~cm_processor.null
          THEN [k \in 0..(channels * width * height - 1) |->
                  LET yy == (k \div channels) \div width
                      xx == (k \div channels) % width
                  IN Pixel(xmin + xx, ymin + yy, k % channels)]
          ELSE IMB_buffer_float_from_byte(byte_buffer, 0, width, height, width, display_stride)
  IN IF use_float
       THEN IMB_buffer_byte_from_float(direct,
                                       dither_display_index(ib, cm_processor, display_stride,
                                                            xmin, ymin),
                                       display_buffer_float, 0, channels, dither,
                                       width, height, display_stride, width)
       ELSE direct

\* IMB_processor_apply_threaded_scanlines over partial_buffer_update_rect_thread_do:
\* one job per scanline, each on the rows [ymin + scanline, ymin + scanline + 1)
partial_buffer_update_rect_thread_do(ib, data, scanline) ==
  LET ymin == data.ymin + scanline
      num_scanlines == 1
  IN partial_buffer_update_rect(ib, data.display_buffer, data.linear_buffer, data.byte_buffer,
                                data.display_stride, data.linear_stride,
                                data.linear_offset_x, data.linear_offset_y,
                                data.cm_processor, data.xmin, ymin, data.xmax,
                                ymin + num_scanlines)

RECURSIVE IMB_processor_apply_threaded_scanlines(_, _, _, _)
IMB_processor_apply_threaded_scanlines(ib, data, total_scanlines, scanline) ==
  IF scanline >= total_scanlines THEN data.display_buffer
  ELSE IMB_processor_apply_threaded_scanlines(
         ib,
         [data EXCEPT !.display_buffer = partial_buffer_update_rect_thread_do(ib, data, scanline)],
         total_scanlines, scanline + 1)

(***************************************************************************)
(* Cached image buffers and the block cache (moviecache)                   *)
(***************************************************************************)
MaxObjs == NumViews * NumDisplays + MaxHandles + NumCallers + 1

NoData ==
  [flag |-> {}, look |-> 0, exposure |-> 0, gamma |-> 0, dither |-> 0,
   curve_mapping |-> NULL, curve_mapping_timestamp |-> 0]
NoMade == [view_settings |-> "none", display_settings |-> "none"]
\* made: history of the buffer, the settings its pixels were computed from
FreeObj ==
  [live |-> FALSE, refcounter |-> 0, data |-> NoData, rect |-> NullBuf, made |-> NoMade]

\* IMB_allocImBuf: a fresh ImBuf, refcounter 0 (one owner)
IMB_allocImBuf(h) == CHOOSE id \in 1..MaxObjs : ~h[id].live /\ \A j \in 1..(id - 1) : h[j].live

\* IMB_freeImBuf: drop one owner; the last owner frees the buffer
IMB_freeImBuf(h, id) ==
  IF id = NULL THEN h
  ELSE IF h[id].refcounter > 0 THEN [h EXCEPT ![id].refcounter = @ - 1]
  ELSE [h EXCEPT ![id] = FreeObj]

IMB_refImBuf(h, id) == [h EXCEPT ![id].refcounter = @ + 1]

NoMoviecache == [null |-> TRUE, items |-> {}]

colormanage_hashcmp(a, b) == (a.view # b.view) \/ (a.display # b.display)

\* IMB_moviecache_get: the ImBuf stored under the key, with one more owner
IMB_moviecache_get(moviecache, key, h) ==
  IF \E it \in moviecache.items : ~colormanage_hashcmp(it.key, key)
    THEN LET it == CHOOSE it \in moviecache.items : ~colormanage_hashcmp(it.key, key)
         IN [ibuf |-> it.ibuf, heap |-> IMB_refImBuf(h, it.ibuf)]
    ELSE [ibuf |-> NULL, heap |-> h]

RECURSIVE FreeAll(_, _)
FreeAll(h, ids) ==
  IF ids = {} THEN h
  ELSE LET id == CHOOSE id \in ids : TRUE
       IN FreeAll(IMB_freeImBuf(h, id), ids \ {id})

\* IMB_moviecache_put: the cache becomes an owner of the ImBuf; an item
\* already stored under the key is replaced and its ImBuf released
IMB_moviecache_put(moviecache, key, id, h) ==
  LET same == {it \in moviecache.items : ~colormanage_hashcmp(it.key, key)}
  IN [moviecache |->
        [moviecache EXCEPT !.items = (@ \ same) \cup {[key |-> key, ibuf |-> id]}],
      heap |-> FreeAll(IMB_refImBuf(h, id), {it.ibuf : it \in same})]

colormanage_moviecache_get(ib) == ib.moviecache

colormanage_moviecache_ensure(ib) ==
  IF ib.moviecache.null THEN [null |-> FALSE, items |-> {}] ELSE ib.moviecache

colormanage_view_settings_to_cache(ib, view_settings) ==
  [look |-> IMB_colormanagement_look_get_named_index(view_settings.look),
   view |-> IMB_colormanagement_view_get_named_index(view_settings.view_transform),
   exposure |-> view_settings.exposure,
   gamma |-> view_settings.gamma,
   dither |-> ib.dither,
   flag |-> view_settings.flag,
   curve_mapping |-> view_settings.curve_mapping]

colormanage_display_settings_to_cache(display_settings) ==
  [display |-> IMB_colormanagement_display_get_named_index(display_settings.display_device)]

\* a key that tells displays apart and not views
colormanage_settings_to_key_display_only(view_settings, display_settings) ==
  [view |-> 1, display |-> display_settings.display]

colormanage_settings_to_key(view_settings, display_settings) ==
  [view |-> view_settings.view, display |-> display_settings.display]

colormanage_cache_get_ibuf(ib, key, h) ==
  LET moviecache == colormanage_moviecache_get(ib)
  IN IF moviecache.null THEN [ibuf |-> NULL, heap |-> h]
     ELSE IMB_moviecache_get(moviecache, key, h)

\* a comparison of the snapshot that leaves the exposure out
cache_data_differs_but_exposure(cache_data, view_settings, curve_mapping, curve_mapping_timestamp) ==
  \/ cache_data.look # view_settings.look
  \/ cache_data.gamma # view_settings.gamma
  \/ cache_data.dither # view_settings.dither
  \/ cache_data.flag # view_settings.flag
  \/ cache_data.curve_mapping # curve_mapping
  \/ cache_data.curve_mapping_timestamp # curve_mapping_timestamp

\* colormanage_cache_get: the cached buffer was made with other parameters
cache_data_differs(cache_data, view_settings, curve_mapping, curve_mapping_timestamp) ==
  \/ cache_data.look # view_settings.look
  \/ cache_data.exposure # view_settings.exposure
  \/ cache_data.gamma # view_settings.gamma
  \/ cache_data.dither # view_settings.dither
  \/ cache_data.flag # view_settings.flag
  \/ cache_data.curve_mapping # curve_mapping
  \/ cache_data.curve_mapping_timestamp # curve_mapping_timestamp

\* a mismatch that keeps the reference the lookup took
cache_get_mismatch_keeps_reference(h, cache_ibuf) == h

\* colormanage_cache_get on a mismatch: IMB_freeImBuf(cache_ibuf) gives back
\* the reference the lookup took; the block cache is not touched
cache_get_mismatch(h, cache_ibuf) == IMB_freeImBuf(h, cache_ibuf)

\* a lookup that asks the block cache whatever the flag of the pair says
colormanage_cache_get_unflagged(ib, h, view_settings, display_settings, cts) ==
  LET curve_mapping == view_settings.curve_mapping
      curve_mapping_timestamp == IF curve_mapping # NULL THEN cts ELSE 0
      key == colormanage_settings_to_key(view_settings, display_settings)
      Miss(hh, f) == [display_buffer |-> NULL, cache_handle |-> NULL, heap |-> hh, found |-> f]
      Compare(got) ==
        IF got.ibuf # NULL
          THEN IF cache_data_differs(got.heap[got.ibuf].data, view_settings, curve_mapping,
                                     curve_mapping_timestamp)
                 THEN Miss(cache_get_mismatch(got.heap, got.ibuf), got.ibuf)
                 ELSE [display_buffer |-> got.ibuf, cache_handle |-> got.ibuf,
                       heap |-> got.heap, found |-> got.ibuf]
          ELSE Miss(got.heap, NULL)
  IN Compare(colormanage_cache_get_ibuf(ib, key, h))

\* view_settings, display_settings: the cache settings; cts: changed_timestamp
\* of the curve mapping.  display_buffer is the id of the cached ImBuf whose
\* rect is returned; found is the cache_ibuf the block cache returned, if it
\* was asked.
colormanage_cache_get(ib, h, view_settings, display_settings, cts) ==
  LET view_flag == Pow2(view_settings.view - 1)
      curve_mapping == view_settings.curve_mapping
      curve_mapping_timestamp == IF curve_mapping # NULL THEN cts ELSE 0
      key == colormanage_settings_to_key(view_settings, display_settings)
      Miss(hh, f) == [display_buffer |-> NULL, cache_handle |-> NULL, heap |-> hh, found |-> f]
      \* got: cache_ibuf as the block cache returned it, and the heap after
      Compare(got) ==
        IF got.ibuf # NULL
          THEN IF cache_data_differs(got.heap[got.ibuf].data, view_settings, curve_mapping,
                                     curve_mapping_timestamp)
                 THEN Miss(cache_get_mismatch(got.heap, got.ibuf), got.ibuf)
                 ELSE [display_buffer |-> got.ibuf, cache_handle |-> got.ibuf,
                       heap |-> got.heap, found |-> got.ibuf]
          ELSE Miss(got.heap, NULL)
  IN IF BitAnd(ib.display_buffer_flags[display_settings.display - 1], view_flag) = 0
       THEN Miss(h, NULL)
       ELSE Compare(colormanage_cache_get_ibuf(ib, key, h))

colormanage_cache_put(ib, h, view_settings, display_settings, display_buffer, cts) ==
  LET view_flag == Pow2(view_settings.view - 1)
      moviecache == colormanage_moviecache_ensure(ib)
      curve_mapping == view_settings.curve_mapping
      curve_mapping_timestamp == IF curve_mapping # NULL THEN cts ELSE 0
      key == colormanage_settings_to_key(view_settings, display_settings)
      cache_data ==
        [look |-> view_settings.look,
         exposure |-> view_settings.exposure,
         gamma |-> view_settings.gamma,
         dither |-> view_settings.dither,
         flag |-> view_settings.flag,
         curve_mapping |-> curve_mapping,
         curve_mapping_timestamp |-> curve_mapping_timestamp]
      Put(cache_ibuf, stored) ==
        [ibuf |-> [ib EXCEPT
                     !.display_buffer_flags[display_settings.display - 1] = BitOr(@, view_flag),
                     !.moviecache = stored.moviecache],
         heap |-> stored.heap,
         cache_handle |-> cache_ibuf]
      Alloc(cache_ibuf) ==
        Put(cache_ibuf,
            IMB_moviecache_put(
              moviecache, key, cache_ibuf,
              [h EXCEPT ![cache_ibuf] =
                 [live |-> TRUE, refcounter |-> 0, data |-> cache_data,
                  rect |-> display_buffer, made |-> NoMade]]))
  IN Alloc(IMB_allocImBuf(h))

\* a release that gives no reference back
colormanage_cache_handle_release_leak(h, cache_handle) == h

\* a release that gives back a reference more than the handle stands for
colormanage_cache_handle_release_twice(h, cache_handle) ==
  IMB_freeImBuf(IMB_freeImBuf(h, cache_handle), cache_handle)

colormanage_cache_handle_release(h, cache_handle) == IMB_freeImBuf(h, cache_handle)

\* frees display_buffer_flags and the whole block cache of the image buffer
colormanage_cache_free(ib, h) ==
  [ibuf |-> [ib EXCEPT !.display_buffer_flags = NullBuf, !.moviecache = NoMoviecache],
   heap |-> FreeAll(h, {it.ibuf : it \in ib.moviecache.items})]

(***************************************************************************)
(* Public display buffer interfaces                                        *)
(***************************************************************************)
ThreadedMinArea == 4096

Invalid(ib) == "IB_DISPLAY_BUFFER_INVALID" \in ib.userflags

IMB_display_buffer_release(h, cache_handle) ==
  IF cache_handle # NULL THEN colormanage_cache_handle_release(h, cache_handle) ELSE h

\* imb_partial_display_buffer_update_ex, the part under LOCK_COLORMANAGE
\* (entered only when display_buffer_flags is not NULL)
partial_update_locked(ib, h, cts, view_settings, display_settings) ==
  LET cache_view_settings == colormanage_view_settings_to_cache(ib, view_settings)
      cache_display_settings == colormanage_display_settings_to_cache(display_settings)
      cleared == [d \in DOMAIN ib.display_buffer_flags |-> 0]
      Locked(view_flag, display_index, got) ==
        [ibuf |-> [ib EXCEPT !.display_buffer_flags =
                               [cleared EXCEPT ![display_index] = BitOr(@, view_flag)]],
         heap |-> got.heap,
         display_buffer |-> got.display_buffer,
         cache_handle |-> got.cache_handle,
         found |-> got.found,
         buffer_width |-> ib.x]
  IN Locked(Pow2(IMB_colormanagement_view_get_named_index(view_settings.view_transform) - 1),
            cache_display_settings.display - 1,
            IF ~Invalid(ib)
              THEN colormanage_cache_get(ib, h, cache_view_settings, cache_display_settings, cts)
              ELSE [display_buffer |-> NULL, cache_handle |-> NULL, heap |-> h, found |-> NULL])

\* imb_partial_display_buffer_update_ex, the part after the lock is dropped:
\* the new pixels of the cached display buffer
partial_update_write(ib, h, display_buffer, linear_buffer, byte_buffer, buffer_width, stride, offset_x, offset_y, view_settings, display_settings, cts, xmin, ymin, xmax, ymax, do_threads) ==
  LET skip_transform ==
        IF linear_buffer = NullBuf /\ byte_buffer # NullBuf
          THEN is_ibuf_rect_in_display_space(ib, view_settings, display_settings)
          ELSE FALSE
      Update(cm_processor) ==
        IF do_threads
          THEN IMB_processor_apply_threaded_scanlines(
                 ib,
                 [display_buffer |-> h[display_buffer].rect,
                  linear_buffer |-> linear_buffer,
                  byte_buffer |-> byte_buffer,
                  display_stride |-> buffer_width,
                  linear_stride |-> stride,
                  linear_offset_x |-> offset_x,
                  linear_offset_y |-> offset_y,
                  cm_processor |-> cm_processor,
                  xmin |-> xmin, ymin |-> ymin, xmax |-> xmax],
                 ymax - ymin, 0)
          ELSE partial_buffer_update_rect(ib, h[display_buffer].rect, linear_buffer, byte_buffer,
                                          buffer_width, stride, offset_x, offset_y,
                                          cm_processor, xmin, ymin, xmax, ymax)
  IN Update(IF ~skip_transform
              THEN IMB_colormanagement_display_processor_new(view_settings, display_settings, cts)
              ELSE NoProcessor)

imb_partial_display_buffer_update_ex(ib, h, cts, linear_buffer, byte_buffer, stride, offset_x, offset_y, view_settings, display_settings, xmin, ymin, xmax, ymax, do_threads) ==
  LET \* l: the image buffer, the heap and the locals after the locked part
      Unlocked(l) ==
        IF l.display_buffer # NULL
          THEN [ibuf |-> l.ibuf,
                heap |-> IMB_display_buffer_release(
                           [l.heap EXCEPT ![l.display_buffer].rect =
                              partial_update_write(
                                l.ibuf, l.heap, l.display_buffer, linear_buffer, byte_buffer,
                                l.buffer_width, stride, offset_x, offset_y,
                                view_settings, display_settings, cts,
                                xmin, ymin, xmax, ymax, do_threads)],
                           l.cache_handle),
                display_buffer |-> l.display_buffer, found |-> l.found]
          ELSE [ibuf |-> l.ibuf, heap |-> l.heap, display_buffer |-> NULL, found |-> l.found]
  IN Unlocked(IF ib.display_buffer_flags # NullBuf
                THEN partial_update_locked(ib, h, cts, view_settings, display_settings)
                ELSE [ibuf |-> ib, heap |-> h, display_buffer |-> NULL, cache_handle |-> NULL,
                      found |-> NULL, buffer_width |-> ib.x])

IMB_partial_display_buffer_update(ib, h, cts, linear_buffer, byte_buffer, stride, offset_x, offset_y, view_settings, display_settings, xmin, ymin, xmax, ymax) ==
  imb_partial_display_buffer_update_ex(ib, h, cts, linear_buffer, byte_buffer, stride,
                                       offset_x, offset_y, view_settings, display_settings,
                                       xmin, ymin, xmax, ymax, FALSE)

IMB_partial_display_buffer_update_threaded(ib, h, cts, linear_buffer, byte_buffer, stride, offset_x, offset_y, view_settings, display_settings, xmin, ymin, xmax, ymax) ==
  LET width == xmax - xmin
      height == ymax - ymin
      do_threads == (width * height >= ThreadedMinArea)
  IN imb_partial_display_buffer_update_ex(ib, h, cts, linear_buffer, byte_buffer, stride,
                                          offset_x, offset_y, view_settings, display_settings,
                                          xmin, ymin, xmax, ymax, do_threads)

BLI_rcti_init(xmin, xmax, ymin, ymax) ==
  [xmin |-> xmin, xmax |-> xmax, ymin |-> ymin, ymax |-> ymax]

BLI_rcti_union(rct1, rct2) ==
  [xmin |-> Min(rct1.xmin, rct2.xmin), xmax |-> Max(rct1.xmax, rct2.xmax),
   ymin |-> Min(rct1.ymin, rct2.ymin), ymax |-> Max(rct1.ymax, rct2.ymax)]

\* a delayed update that keeps only the rectangle passed last
IMB_partial_display_buffer_update_delayed_last_only(ib, xmin, ymin, xmax, ymax) ==
  [ib EXCEPT !.invalid_rect = BLI_rcti_init(xmin, xmax, ymin, ymax)]

IMB_partial_display_buffer_update_delayed(ib, xmin, ymin, xmax, ymax) ==
  IF ib.invalid_rect.xmin = ib.invalid_rect.xmax
    THEN [ib EXCEPT !.invalid_rect = BLI_rcti_init(xmin, xmax, ymin, ymax)]
    ELSE [ib EXCEPT !.invalid_rect = BLI_rcti_union(@, BLI_rcti_init(xmin, xmax, ymin, ymax))]

\* IMB_display_buffer_acquire before it takes the lock: the early returns and
\* the refresh of the pending invalid rectangle.  done: the call has returned
acquire_unlocked(ib, h, cts, view_settings, display_settings) ==
  LET \* u: the image buffer and the heap after the refresh
      Flushed(u) ==
        [done |-> FALSE, result |-> "",
         ibuf |-> [u.ibuf EXCEPT !.invalid_rect = BLI_rcti_init(0, 0, 0, 0)],
         heap |-> u.heap]
  IN IF ib.x = 0 \/ ib.y = 0
       THEN [done |-> TRUE, result |-> "null", ibuf |-> ib, heap |-> h]
     ELSE IF /\ ib.rect_float = NullBuf /\ ib.rect_colorspace # NoName /\ ib.channels = 4
             /\ is_ibuf_rect_in_display_space(ib, view_settings, display_settings)
       THEN [done |-> TRUE, result |-> "rect", ibuf |-> ib, heap |-> h]
     ELSE IF ib.invalid_rect.xmin # ib.invalid_rect.xmax
       THEN Flushed(IF ~Invalid(ib)
                      THEN IMB_partial_display_buffer_update_threaded(
                             ib, h, cts, ib.rect_float, ib.rect, ib.x, 0, 0,
                             view_settings, display_settings,
                             ib.invalid_rect.xmin, ib.invalid_rect.ymin,
                             ib.invalid_rect.xmax, ib.invalid_rect.ymax)
                      ELSE [ibuf |-> ib, heap |-> h, display_buffer |-> NULL, found |-> NULL])
     ELSE [done |-> FALSE, result |-> "", ibuf |-> ib, heap |-> h]

\* flags that are allocated when missing and never cleared
acquire_ensure_flags_never_cleared(ib) ==
  IF ib.display_buffer_flags = NullBuf
    THEN [ib EXCEPT !.display_buffer_flags = [d \in 0..(global_tot_display - 1) |-> 0]]
  ELSE ib

\* IMB_display_buffer_acquire, first statement under the lock: the flag array
\* is allocated zeroed when it is missing, else zeroed when the image buffer
\* is marked IB_DISPLAY_BUFFER_INVALID, and the mark is taken off
acquire_ensure_flags(ib) ==
  IF ib.display_buffer_flags = NullBuf
    THEN [ib EXCEPT !.display_buffer_flags = [d \in 0..(global_tot_display - 1) |-> 0]]
  ELSE IF Invalid(ib)
    THEN [ib EXCEPT !.display_buffer_flags = [d \in 0..(global_tot_display - 1) |-> 0],
                    !.userflags = @ \ {"IB_DISPLAY_BUFFER_INVALID"}]
  ELSE ib

\* IMB_display_buffer_acquire between BLI_thread_lock and BLI_thread_unlock
acquire_locked(ib, h, cts, view_settings, display_settings) ==
  LET cache_view_settings == colormanage_view_settings_to_cache(ib, view_settings)
      cache_display_settings == colormanage_display_settings_to_cache(display_settings)
      made == [view_settings |-> view_settings, display_settings |-> display_settings]
      Stored(got, stored) ==
        [result |-> "computed", ibuf |-> stored.ibuf,
         heap |-> [stored.heap EXCEPT ![stored.cache_handle].made = made],
         display_buffer |-> stored.cache_handle,
         cache_handle |-> stored.cache_handle,
         found |-> got.found]
      \* ib1: the image buffer with its flags ensured; got: the lookup's outcome
      Looked(ib1, got) ==
        IF got.display_buffer # NULL
          THEN [result |-> "hit", ibuf |-> ib1, heap |-> got.heap,
                display_buffer |-> got.display_buffer, cache_handle |-> got.cache_handle,
                found |-> got.found]
          ELSE Stored(got,
                      colormanage_cache_put(
                        ib1, got.heap, cache_view_settings, cache_display_settings,
                        colormanage_display_buffer_process(
                          ib1, [i \in 0..(DISPLAY_BUFFER_CHANNELS * ib1.x * ib1.y - 1) |-> 0],
                          view_settings, display_settings, cts),
                        cts))
      Ensured(ib1) ==
        Looked(ib1,
               colormanage_cache_get(ib1, h, cache_view_settings, cache_display_settings, cts))
  IN Ensured(acquire_ensure_flags(ib))

IMB_display_buffer_acquire(ib, h, cts, view_settings, display_settings) ==
  LET \* u: the outcome of the part before the lock
      Locked(u) ==
        IF u.done
          THEN [result |-> u.result, ibuf |-> u.ibuf, heap |-> u.heap,
                display_buffer |-> NULL, cache_handle |-> NULL, found |-> NULL]
          ELSE acquire_locked(u.ibuf, u.heap, cts, view_settings, display_settings)
  IN Locked(acquire_unlocked(ib, h, cts, view_settings, display_settings))

(***************************************************************************)
(* The callers' requests                                                   *)
(***************************************************************************)
\* what the callers of one run vary from request to request: one of the view
\* settings, the dither of the image buffer, the revision of the curve
\* mapping, or ("pixels") the source pixels, with delayed updates
VariedSet == {"exposure", "gamma", "look", "flag", "curve", "timestamp", "dither", "pixels"}
SrcVals == {40, 80}

BaseViewSettings(v, vr) ==
  [view_transform |-> <<"view", v>>,
   look |-> <<"look", "1">>,
   exposure |-> 0,
   gamma |-> 1,
   flag |-> IF vr = "timestamp" THEN {"COLORMANAGE_VIEW_USE_CURVES"} ELSE {},
   curve_mapping |-> IF vr \in {"flag", "timestamp"} THEN 1 ELSE NULL]

AltViewSettings(v, vr) ==
  LET b == BaseViewSettings(v, vr)
  IN CASE vr = "exposure" -> [b EXCEPT !.exposure = 1]
       [] vr = "gamma" -> [b EXCEPT !.gamma = 2]
       [] vr = "look" -> [b EXCEPT !.look = <<"look", "2">>]
       [] vr = "flag" -> [b EXCEPT !.flag = {"COLORMANAGE_VIEW_USE_CURVES"}]
       [] vr = "curve" -> [b EXCEPT !.curve_mapping = 1]
       [] OTHER -> b

ViewSettingsSet(vr) ==
  {BaseViewSettings(v, vr) : v \in 1..NumViews} \cup {AltViewSettings(v, vr) : v \in 1..NumViews}

DisplaySettingsSet == {[display_device |-> <<"display", d>>] : d \in 1..NumDisplays}

Rects(w, h) ==
  {r \in [xmin : 0..w, xmax : 0..w, ymin : 0..h, ymax : 0..h] :
     r.xmin < r.xmax /\ r.ymin < r.ymax}

\* the last operation other than a release: "acquire", "partial" or "other",
\* with its outcome, the cached buffer it returned or wrote, and whether its
\* lookup found an entry with another parameter snapshot, and whether the
\* image buffer was marked IB_DISPLAY_BUFFER_INVALID when it was called
Ret(op, result, display_buffer, found, invalid) ==
  IF op \in {"acquire", "partial"}
    THEN [op |-> op, result |-> result, display_buffer |-> display_buffer,
          mismatch |-> (found # NULL /\ display_buffer # found), invalid |-> invalid]
    ELSE [op |-> "other", result |-> "", display_buffer |-> NULL, mismatch |-> FALSE,
          invalid |-> FALSE]

HandleCount == LET RECURSIVE Sum(_)
                   Sum(n) == IF n = 0 THEN 0 ELSE handles[n] + Sum(n - 1)
               IN Sum(MaxObjs)

(***************************************************************************)
(* One caller: every operation is one step                                 *)
(***************************************************************************)
InitImBuf(kind) ==
  [x |-> Width, y |-> Height, channels |-> 4,
   rect_float |-> IF kind = "float"
                    THEN [k \in 0..(4 * Width * Height - 1) |-> IF k % 4 = 3 THEN 255 ELSE 40]
                    ELSE NullBuf,
   rect |-> IF kind = "byte"
              THEN [k \in 0..(4 * Width * Height - 1) |-> IF k % 4 = 3 THEN 255 ELSE 40]
              ELSE NullBuf,
   rect_colorspace |-> <<"colorspace", 1, 0>>,
   is_data |-> FALSE,
   dither |-> 0,
   userflags |-> {},
   display_buffer_flags |-> NullBuf,
   invalid_rect |-> BLI_rcti_init(0, 0, 0, 0),
   moviecache |-> NoMoviecache]

\* the locals of a caller that is in no call and holds no handle
NoLoc == [q |-> <<>>, cache_handle |-> NULL, display_buffer |-> NULL, buffer_width |-> 0]

NoPin == [stage |-> "none"]

Idle ==
  /\ pc = [t \in 1..NumCallers |-> "idle"]
  /\ lock = 0
  /\ loc = [t \in 1..NumCallers |-> NoLoc]
  /\ pin = NoPin
  /\ catalog = LoadedCatalog
  /\ passed = {}

Init ==
  /\ varied \in VariedSet
  /\ ibuf \in {InitImBuf("float"), InitImBuf("byte")}
  /\ heap = [id \in 1..MaxObjs |-> FreeObj]
  /\ handles = [id \in 1..MaxObjs |-> 0]
  /\ curve_ts = 0
  /\ ret = Ret("other", "", NULL, NULL, FALSE)
  /\ Idle

Acquire(vs, ds) ==
  /\ HandleCount < MaxHandles
  /\ \E a \in {IMB_display_buffer_acquire(ibuf, heap, curve_ts, vs, ds)} :
        /\ ibuf' = a.ibuf
        /\ heap' = a.heap
        /\ handles' = IF a.cache_handle # NULL
                        THEN [handles EXCEPT ![a.cache_handle] = @ + 1] ELSE handles
        /\ ret' = Ret("acquire", a.result, a.display_buffer, a.found, Invalid(ibuf))
  /\ UNCHANGED <<curve_ts, varied, pc, loc, lock, pin, catalog, passed>>

Release(id) ==
  /\ handles[id] > 0
  /\ heap' = IMB_display_buffer_release(heap, id)
  /\ handles' = [handles EXCEPT ![id] = @ - 1]
  /\ UNCHANGED <<ibuf, curve_ts, varied, ret, pc, loc, lock, pin, catalog, passed>>

\* a tool refreshes a rectangle from the image buffer's own pixels
PartialUpdate(vs, ds, r, do_threads) ==
  /\ \E u \in {imb_partial_display_buffer_update_ex(
                 ibuf, heap, curve_ts, ibuf.rect_float, ibuf.rect, ibuf.x, 0, 0, vs, ds,
                 r.xmin, r.ymin, r.xmax, r.ymax, do_threads)} :
        /\ ibuf' = u.ibuf
        /\ heap' = u.heap
        /\ ret' = Ret("partial", IF u.display_buffer # NULL THEN "updated" ELSE "noop",
                      u.display_buffer, u.found, Invalid(ibuf))
  /\ UNCHANGED <<handles, curve_ts, varied, pc, loc, lock, pin, catalog, passed>>

UpdateDelayed(r) ==
  /\ varied = "pixels"
  /\ ibuf' = IMB_partial_display_buffer_update_delayed(ibuf, r.xmin, r.ymin, r.xmax, r.ymax)
  /\ ret' = Ret("other", "", NULL, NULL, FALSE)
  /\ UNCHANGED <<heap, handles, curve_ts, varied, pc, loc, lock, pin, catalog, passed>>

\* another area marks all display buffers of the image buffer invalid
MarkInvalid ==
  /\ ibuf' = [ibuf EXCEPT !.userflags = @ \cup {"IB_DISPLAY_BUFFER_INVALID"}]
  /\ ret' = Ret("other", "", NULL, NULL, FALSE)
  /\ UNCHANGED <<heap, handles, curve_ts, varied, pc, loc, lock, pin, catalog, passed>>

\* a tool writes colour v to source pixel p
Edit(p, v) ==
  /\ varied = "pixels"
  /\ LET Put(buf) == [k \in DOMAIN buf |->
                        IF k \div ibuf.channels = p /\ k % ibuf.channels < 3 THEN v ELSE buf[k]]
     IN ibuf' = [ibuf EXCEPT !.rect_float = Put(@), !.rect = Put(@)]
  /\ ibuf' # ibuf
  /\ ret' = Ret("other", "", NULL, NULL, FALSE)
  /\ UNCHANGED <<heap, handles, curve_ts, varied, pc, loc, lock, pin, catalog, passed>>

\* the block cache evicts one item under memory pressure
Evict(it) ==
  /\ it \in ibuf.moviecache.items
  /\ ibuf' = [ibuf EXCEPT !.moviecache.items = @ \ {it}]
  /\ heap' = IMB_freeImBuf(heap, it.ibuf)
  /\ ret' = Ret("other", "", NULL, NULL, FALSE)
  /\ UNCHANGED <<handles, curve_ts, varied, pc, loc, lock, pin, catalog, passed>>

SetDither(d) ==
  /\ varied = "dither"
  /\ d # ibuf.dither
  /\ ibuf' = [ibuf EXCEPT !.dither = d]
  /\ ret' = Ret("other", "", NULL, NULL, FALSE)
  /\ UNCHANGED <<heap, handles, curve_ts, varied, pc, loc, lock, pin, catalog, passed>>

\* the user edits the curve mapping: BKE_curvemapping_changed bumps the timestamp
CurveChanged ==
  /\ varied = "timestamp"
  /\ curve_ts < MaxTimestamp
  /\ curve_ts' = curve_ts + 1
  /\ ret' = Ret("other", "", NULL, NULL, FALSE)
  /\ UNCHANGED <<ibuf, heap, handles, varied, pc, loc, lock, pin, catalog, passed>>

Next ==
  \/ \E vs \in ViewSettingsSet(varied), ds \in DisplaySettingsSet : Acquire(vs, ds)
  \/ \E id \in 1..MaxObjs : Release(id)
  \/ \E vs \in ViewSettingsSet(varied), ds \in DisplaySettingsSet,
        r \in Rects(Width, Height), do_threads \in BOOLEAN : PartialUpdate(vs, ds, r, do_threads)
  \/ \E r \in Rects(Width, Height) : UpdateDelayed(r)
  \/ MarkInvalid
  \/ \E p \in 0..(Width * Height - 1), v \in SrcVals : Edit(p, v)
  \/ \E it \in ibuf.moviecache.items : Evict(it)
  \/ \E d \in {0, 1} : SetDither(d)
  \/ CurveChanged

Spec == Init /\ [][Next]_vars

(***************************************************************************)
(* Properties of the display buffer cache (one caller)                     *)
(***************************************************************************)
Items == ibuf.moviecache.items

KeyOf(vs, ds) ==
  [view |-> IMB_colormanagement_view_get_named_index(vs.view_transform),
   display |-> IMB_colormanagement_display_get_named_index(ds.display_device)]

\* the bit of the (display, view) pair in the flag array, FALSE without array
BitIsSet(ib, key) ==
  /\ ib.display_buffer_flags # NullBuf
  /\ BitAnd(ib.display_buffer_flags[key.display - 1], Pow2(key.view - 1)) # 0

\* the parameter snapshot the settings ask for
RequestedSnapshot(ib, vs, cts) ==
  [look |-> IMB_colormanagement_look_get_named_index(vs.look),
   exposure |-> vs.exposure,
   gamma |-> vs.gamma,
   dither |-> ib.dither,
   flag |-> vs.flag,
   curve_mapping |-> vs.curve_mapping,
   curve_mapping_timestamp |-> IF vs.curve_mapping # NULL THEN cts ELSE 0]

Requests == ViewSettingsSet(varied) \X DisplaySettingsSet

C2_NeverComputedIsNoop ==
  [][\A q \in Requests, r \in Rects(Width, Height), do_threads \in BOOLEAN :
       (/\ PartialUpdate(q[1], q[2], r, do_threads)
        /\ ~BitIsSet(ibuf, KeyOf(q[1], q[2]))
        /\ \A it \in Items : it.key # KeyOf(q[1], q[2]))
       => /\ ibuf'.moviecache.items = Items
          /\ \A id \in 1..MaxObjs : heap'[id].rect = heap[id].rect
          /\ ~BitIsSet(ibuf', KeyOf(q[1], q[2]))]_vars

\* C4: after a partial update on an image buffer whose flag array exists, every
\* bit other than the one of the requested (display, view) pair is zero, and an
\* acquire for any other pair is not answered from the cache.
C4_OtherBitsCleared ==
  [][\A q \in Requests, r \in Rects(Width, Height), do_threads \in BOOLEAN :
       (PartialUpdate(q[1], q[2], r, do_threads) /\ ibuf.display_buffer_flags # NullBuf)
       => /\ ibuf'.display_buffer_flags # NullBuf
          /\ \A d \in 1..NumDisplays, v \in 1..NumViews :
               [view |-> v, display |-> d] # KeyOf(q[1], q[2])
                 => ~BitIsSet(ibuf', [view |-> v, display |-> d])
          /\ \A q2 \in Requests :
               KeyOf(q2[1], q2[2]) # KeyOf(q[1], q[2])
                 => IMB_display_buffer_acquire(ibuf', heap', curve_ts', q2[1], q2[2]).result
                      # "hit"]_vars

\* what C5 promises of an acquire on an image buffer marked invalid
C5_Recomputed(q) ==
  /\ ret'.result = "computed"
  /\ ~heap[ret'.display_buffer].live
  /\ \A d \in 1..NumDisplays, v \in 1..NumViews :
       BitIsSet(ibuf', [view |-> v, display |-> d]) <=> [view |-> v, display |-> d] = KeyOf(q[1], q[2])

\* C5 as stated: with all display buffers marked invalid after they were
\* computed, the next acquire for any pair clears every bit, returns no
\* buffer computed before and recomputes the requested one.
C5_Original ==
  [][\A q \in Requests :
       (Acquire(q[1], q[2]) /\ Invalid(ibuf) /\ Items # {}) => C5_Recomputed(q)]_vars

\* C5 amended: the same, for every acquire that does not return early (NULL
\* for an empty image, the image buffer's own byte buffer when it is already
\* in display space); an early return leaves the bits and the mark as they are.
C5_InvalidForcesRecompute ==
  [][\A q \in Requests :
       (Acquire(q[1], q[2]) /\ Invalid(ibuf) /\ Items # {})
       => IF ret'.result \in {"null", "rect"}
            THEN ibuf' = ibuf /\ heap' = heap
            ELSE C5_Recomputed(q)]_vars

C5_Witness ==
  /\ ret.op = "acquire" /\ ret.invalid /\ ret.result = "computed"
  /\ \E it \in Items : ~BitIsSet(ibuf, it.key)
  /\ ~Invalid(ibuf)

C7_OneEntryPerKey ==
  [][/\ \A it1, it2 \in ibuf'.moviecache.items : it1.key = it2.key => it1 = it2
     /\ \A q \in Requests :
          (Acquire(q[1], q[2]) /\ ret'.result \in {"hit", "computed"})
          => /\ heap'[ret'.display_buffer].made =
                  [view_settings |-> q[1], display_settings |-> q[2]]
             /\ [key |-> KeyOf(q[1], q[2]), ibuf |-> ret'.display_buffer]
                  \in ibuf'.moviecache.items]_vars

C7_Witness ==
  /\ varied = "exposure"
  /\ ret.op = "acquire" /\ ret.result = "computed" /\ ret.mismatch
  /\ heap[ret.display_buffer].made.view_settings.exposure = 0
  /\ heap[ret.display_buffer].data.exposure = 0

\* C8: after an acquire computed and stored a buffer, a second acquire with
\* the same settings (no invalidation, partial update or eviction in between)
\* returns that buffer from the cache with a handle and computes nothing.
C8_SecondAcquireHits ==
  [][\A q \in Requests :
       (/\ ret.op = "acquire" /\ ret.result = "computed"
        /\ heap[ret.display_buffer].live
        /\ heap[ret.display_buffer].made = [view_settings |-> q[1], display_settings |-> q[2]]
        /\ Acquire(q[1], q[2]))
       => /\ ret'.result = "hit"
          /\ ret'.display_buffer = ret.display_buffer
          /\ handles'[ret.display_buffer] = handles[ret.display_buffer] + 1]_vars

\* C9: the owners of every cached ImBuf are exactly the handles not yet
\* released plus the block cache: refcounter + 1 equals the number of held
\* handles plus the number of cache items on it, and a freed ImBuf has neither;
\* so with every handle released an entry is owned by the cache alone.
C9_RefcountBalanced ==
  \A id \in 1..MaxObjs :
    LET cached == Cardinality({it \in Items : it.ibuf = id})
    IN IF heap[id].live
         THEN heap[id].refcounter + 1 = handles[id] + cached
         ELSE handles[id] = 0 /\ cached = 0

C9_Witness ==
  /\ ret.op = "partial" /\ ret.mismatch
  /\ HandleCount = 0
  /\ Items # {}
  /\ \A it \in Items : heap[it.ibuf].refcounter = 0

\* what IMB_display_buffer_acquire returned: the image buffer's own bytes or
\* the pixels of the cached buffer
ReturnedBuffer(ib, h, r) == IF r.result = "rect" THEN ib.rect ELSE h[r.display_buffer].rect

\* C12: an acquire that returns a display buffer for an image buffer with a
\* non-empty pending rectangle leaves the pending rectangle empty, and inside
\* the consumed rectangle the returned buffer is what the current source
\* pixels give under the requested settings.
C12_AcquireConsumesPending ==
  [][\A q \in Requests :
       (/\ Acquire(q[1], q[2])
        /\ ibuf.invalid_rect.xmin # ibuf.invalid_rect.xmax
        /\ ret'.result \in {"hit", "computed", "rect"})
       => /\ ibuf'.invalid_rect.xmin = ibuf'.invalid_rect.xmax
          /\ \A x \in ibuf.invalid_rect.xmin..(ibuf.invalid_rect.xmax - 1),
                y \in ibuf.invalid_rect.ymin..(ibuf.invalid_rect.ymax - 1),
                c \in 0..(DISPLAY_BUFFER_CHANNELS - 1) :
               LET i == (y * ibuf.x + x) * DISPLAY_BUFFER_CHANNELS + c
                   zeroed == [k \in 0..(DISPLAY_BUFFER_CHANNELS * ibuf.x * ibuf.y - 1) |-> 0]
               IN ReturnedBuffer(ibuf', heap', ret')[i] =
                    IF ret'.result = "rect" THEN ibuf'.rect[i]
                    ELSE colormanage_display_buffer_process(ibuf', zeroed, q[1], q[2],
                                                            curve_ts)[i]]_vars

\* C13: for an image buffer with only a 4-channel byte buffer whose colour
\* space is the display colour space of the requested view and display, with
\* exposure 0, gamma 1, curve mapping off and a look without process space,
\* acquire returns the image buffer's own byte buffer with no handle, creates
\* no cache entry and leaves the "ever computed" bits as they are.
C13_DisplaySpaceBytesReturned ==
  [][\A q \in Requests :
       (/\ Acquire(q[1], q[2])
        /\ ibuf.rect_float = NullBuf /\ ibuf.rect # NullBuf /\ ibuf.channels = 4
        /\ ibuf.rect_colorspace =
             IMB_colormanagement_get_display_colorspace_name(q[1], q[2])
        /\ q[1].exposure = 0 /\ q[1].gamma = 1
        /\ "COLORMANAGE_VIEW_USE_CURVES" \notin q[1].flag
        /\ colormanage_look_get_named(q[1].look).process_space = "")
       => /\ ret'.result = "rect" /\ ret'.display_buffer = NULL
          /\ ReturnedBuffer(ibuf', heap', ret') = ibuf.rect
          /\ handles' = handles
          /\ heap' = heap
          /\ ibuf'.moviecache = ibuf.moviecache
          /\ ibuf'.display_buffer_flags = ibuf.display_buffer_flags]_vars

\* the own bytes were returned while the cache holds a buffer of another view
C13_Witness ==
  /\ ret.op = "acquire" /\ ret.result = "rect"
  /\ ibuf.rect_float = NullBuf /\ ibuf.rect # NullBuf
  /\ Items # {}

(***************************************************************************)
(* partial_buffer_update_rect on one display buffer, inputs drawn in Init  *)
(***************************************************************************)
DisplayFill == [i \in 0..(DISPLAY_BUFFER_CHANNELS * RectW * RectH - 1) |-> 100 + i]
LinearFill(channels) == [k \in 0..(channels * RectW * RectH - 1) |-> 20 + k]
ByteFill == [k \in 0..(4 * RectW * RectH - 1) |-> IF k % 4 = 3 THEN 255 ELSE 30 + k]

RectImBuf(channels, dither) ==
  [InitImBuf("float") EXCEPT !.x = RectW, !.y = RectH, !.channels = channels,
                             !.dither = dither]

\* a cached display buffer of RectW x RectH pixels, and a partial update of it:
\* the channels and dither of the image buffer, the source (linear floats or
\* bytes), the view (bytes shown with view 1 are in display space already, so
\* no processor is made), the rectangle, and threaded or not
RectInputs ==
  {[stage |-> "in", channels |-> ch, dither |-> d, source |-> src, view |-> v,
    rect |-> r, do_threads |-> thr, display_buffer |-> DisplayFill, is_data |-> data] :
     ch \in {1, 3, 4}, d \in {0, 1}, src \in {"linear", "byte"}, v \in 1..NumViews,
     r \in Rects(RectW, RectH), thr \in BOOLEAN, data \in BOOLEAN}

\* the settings of the operations on the inputs in pin
RectViewSettings == BaseViewSettings(pin.view, "pixels")
RectDisplaySettings == [display_device |-> <<"display", 1>>]

\* the image buffer of the inputs in pin, and the same with its pixels in
\* rect_float or in rect
RectIb == [RectImBuf(pin.channels, pin.dither) EXCEPT !.is_data = pin.is_data]
FullIb ==
  [RectIb EXCEPT !.rect_float = IF pin.source = "linear" THEN LinearFill(pin.channels)
                                ELSE NullBuf,
                 !.rect = IF pin.source = "byte" THEN ByteFill ELSE NullBuf]

\* the buffer or the pixel a transform request of the kind is made on
TransformBuffer(kind, channels) ==
  CASE kind = "float" -> LinearFill(channels)
    [] kind = "byte" -> ByteFill
    [] kind = "v4" -> [c \in 0..3 |-> LinearFill(4)[c]]

\* a buffer of RectW x RectH pixels, or one pixel, and a colour space
\* transform of it: the channels, the two colour space names (an empty
\* from_colorspace too), predivide, and threaded or not; byte buffers have 4
\* channels, as IMB_colormanagement_processor_apply_byte asserts
TransformInputs ==
  {[stage |-> "transform_in", kind |-> kind, channels |-> ch, from_colorspace |-> from,
    to_colorspace |-> to, predivide |-> pre, do_threaded |-> thr,
    buffer |-> TransformBuffer(kind, ch), processors |-> 0] :
     kind \in {"float"}, ch \in {1, 3, 4},
     from \in {global_colorspaces[i].name : i \in DOMAIN global_colorspaces} \cup {NoName},
     to \in {global_colorspaces[i].name : i \in DOMAIN global_colorspaces},
     pre \in BOOLEAN, thr \in BOOLEAN}
  \cup
  {[stage |-> "transform_in", kind |-> kind, channels |-> 4, from_colorspace |-> from,
    to_colorspace |-> to, predivide |-> FALSE, do_threaded |-> thr,
    buffer |-> TransformBuffer(kind, 4), processors |-> 0] :
     kind \in {"byte"},
     from \in {global_colorspaces[i].name : i \in DOMAIN global_colorspaces} \cup {NoName},
     to \in {global_colorspaces[i].name : i \in DOMAIN global_colorspaces},
     thr \in BOOLEAN}
  \cup
  {[stage |-> "transform_in", kind |-> kind, channels |-> 4, from_colorspace |-> from,
    to_colorspace |-> to, predivide |-> FALSE, do_threaded |-> FALSE,
    buffer |-> TransformBuffer(kind, 4), processors |-> 0] :
     kind \in {"v4"},
     from \in {global_colorspaces[i].name : i \in DOMAIN global_colorspaces} \cup {NoName},
     to \in {global_colorspaces[i].name : i \in DOMAIN global_colorspaces}}

InitRect ==
  /\ pin \in RectInputs \cup TransformInputs
  /\ varied = "pixels"
  /\ ibuf = InitImBuf("float")
  /\ heap = [id \in 1..MaxObjs |-> FreeObj]
  /\ handles = [id \in 1..MaxObjs |-> 0]
  /\ curve_ts = 0
  /\ ret = Ret("other", "", NULL, NULL, FALSE)
  /\ pc = [t \in 1..NumCallers |-> "idle"]
  /\ lock = 0
  /\ loc = [t \in 1..NumCallers |-> NoLoc]
  /\ catalog = LoadedCatalog
  /\ passed = {}

\* imb_partial_display_buffer_update_ex from "if (display_buffer)" on
UpdateRect ==
  /\ pin.stage = "in"
  /\ LET ib == RectIb
         h == [heap EXCEPT ![1].rect = pin.display_buffer]
         view_settings == BaseViewSettings(pin.view, "pixels")
         display_settings == [display_device |-> <<"display", 1>>]
         linear_buffer == IF pin.source = "linear" THEN LinearFill(pin.channels) ELSE NullBuf
         byte_buffer == IF pin.source = "byte" THEN ByteFill ELSE NullBuf
     IN pin' = [pin EXCEPT
                  !.stage = "out",
                  !.display_buffer =
                     partial_update_write(ib, h, 1, linear_buffer, byte_buffer, RectW, RectW,
                                          0, 0, view_settings, display_settings, curve_ts,
                                          pin.rect.xmin, pin.rect.ymin, pin.rect.xmax,
                                          pin.rect.ymax, pin.do_threads)]
  /\ UNCHANGED <<ibuf, heap, handles, curve_ts, varied, ret, pc, loc, lock, catalog, passed>>

\* colormanage_display_buffer_process on the whole image buffer, into a zeroed
\* display buffer; a byte image has 4 channels
ComputeRect ==
  /\ pin.stage = "in"
  /\ pin.source = "byte" => pin.channels = 4
  /\ pin' = [pin EXCEPT
               !.stage = "full",
               !.display_buffer =
                  colormanage_display_buffer_process(
                    FullIb, [i \in DOMAIN pin.display_buffer |-> 0],
                    RectViewSettings, RectDisplaySettings, curve_ts)]
  /\ UNCHANGED <<ibuf, heap, handles, curve_ts, varied, ret, pc, loc, lock, catalog, passed>>

\* IMB_colormanagement_transform, _transform_threaded, _transform_byte,
\* _transform_byte_threaded or _transform_v4 on the buffer or pixel of pin
TransformCall ==
  CASE pin.kind = "float" /\ pin.do_threaded ->
         IMB_colormanagement_transform_threaded(
           pin.buffer, RectW, RectH, pin.channels, pin.from_colorspace,
           pin.to_colorspace, pin.predivide)
    [] pin.kind = "float" /\ ~pin.do_threaded ->
         IMB_colormanagement_transform(
           pin.buffer, RectW, RectH, pin.channels, pin.from_colorspace,
           pin.to_colorspace, pin.predivide)
    [] pin.kind = "byte" /\ pin.do_threaded ->
         IMB_colormanagement_transform_byte_threaded(
           pin.buffer, RectW, RectH, pin.channels, pin.from_colorspace, pin.to_colorspace)
    [] pin.kind = "byte" /\ ~pin.do_threaded ->
         IMB_colormanagement_transform_byte(
           pin.buffer, RectW, RectH, pin.channels, pin.from_colorspace, pin.to_colorspace)
    [] pin.kind = "v4" ->
         IMB_colormanagement_transform_v4(pin.buffer, pin.from_colorspace, pin.to_colorspace)

TransformRect ==
  /\ pin.stage = "transform_in"
  /\ \E done \in {TransformCall} :
       pin' = [pin EXCEPT
                 !.stage = "transform_out",
                 !.buffer = CASE pin.kind = "float" -> done.float_buffer
                              [] pin.kind = "byte" -> done.byte_buffer
                              [] pin.kind = "v4" -> done.pixel,
                 !.processors = done.processors]
  /\ UNCHANGED <<ibuf, heap, handles, curve_ts, varied, ret, pc, loc, lock, catalog, passed>>

NextRect == UpdateRect \/ ComputeRect \/ TransformRect

SpecRect == InitRect /\ [][NextRect]_vars

\* byte i of the display buffer belongs to a pixel of rectangle r
InRect(i, r) ==
  LET x == (i \div DISPLAY_BUFFER_CHANNELS) % RectW
      y == (i \div DISPLAY_BUFFER_CHANNELS) \div RectW
  IN r.xmin <= x /\ x < r.xmax /\ r.ymin <= y /\ y < r.ymax

\* C3: after a partial update every byte of the display buffer outside the
\* rectangle is as it was before, for 1, 3 or 4 channels, zero or non-zero
\* dither, with or without a processor, threaded or not.
C3_OutsideRectUnchanged ==
  pin.stage = "out" =>
    /\ DOMAIN pin.display_buffer = DOMAIN DisplayFill
    /\ \A i \in DOMAIN DisplayFill :
         ~InRect(i, pin.rect) => pin.display_buffer[i] = DisplayFill[i]

RectNoProcessor ==
  /\ pin.source = "byte"
  /\ is_ibuf_rect_in_display_space(RectIb, RectViewSettings,
                                   RectDisplaySettings)

\* C14: in a partial update from a byte source for which no processor is
\* built, every display pixel (x, y) inside the rectangle equals the source
\* pixel at (x, y): the same bytes when dither is 0, and the bytes of that
\* source pixel with dither noise added otherwise.
C14_ByteCopyInsideRect ==
  (pin.stage = "out" /\ RectNoProcessor) =>
    \A x \in pin.rect.xmin..(pin.rect.xmax - 1), y \in pin.rect.ymin..(pin.rect.ymax - 1),
       c \in 0..(DISPLAY_BUFFER_CHANNELS - 1) :
      LET i == (y * RectW + x) * DISPLAY_BUFFER_CHANNELS + c
      IN IF pin.dither = 0 THEN pin.display_buffer[i] = ByteFill[i]
         ELSE IF c = 3 THEN pin.display_buffer[i] = unit_float_to_uchar_clamp(ByteFill[i])
         ELSE \E xx \in 0..(RectW - 1), yy \in 0..(RectH - 1) :
                pin.display_buffer[i] =
                  unit_float_to_uchar_clamp(dither_value(ByteFill[i], pin.dither, xx, yy))

\* the processor that imb_partial_display_buffer_update_ex hands to the update
RectProcessor ==
  IF ~RectNoProcessor
    THEN IMB_colormanagement_display_processor_new(RectViewSettings, RectDisplaySettings,
                                                   curve_ts)
    ELSE NoProcessor

\* C15: in a partial update with dither other than 0 the intermediate float
\* buffer has 4 channels per pixel, also for a source of 3 channels, and the
\* quantised result is written to the display buffer, of 4 bytes per pixel,
\* from the first byte of pixel (xmin, ymin) on.
C15_DitherBufferFourChannels ==
  (pin.stage = "out" /\ pin.dither # 0) =>
    /\ display_buffer_float_channels(RectIb, RectProcessor) = 4
    /\ dither_display_index(RectIb, RectProcessor, RectW,
                            pin.rect.xmin, pin.rect.ymin)
         = (pin.rect.ymin * RectW + pin.rect.xmin) * DISPLAY_BUFFER_CHANNELS

\* the display buffer that the partial update of the inputs in pin leaves,
\* run on worker threads or on the calling thread
RectUpdated(do_threads) ==
  partial_update_write(RectIb,
                       [heap EXCEPT ![1].rect = DisplayFill], 1,
                       IF pin.source = "linear" THEN LinearFill(pin.channels) ELSE NullBuf,
                       IF pin.source = "byte" THEN ByteFill ELSE NullBuf,
                       RectW, RectW, 0, 0, RectViewSettings, RectDisplaySettings, curve_ts,
                       pin.rect.xmin, pin.rect.ymin, pin.rect.xmax, pin.rect.ymax, do_threads)

\* C16: a colour space transform on worker threads gives the buffer that the
\* transform on the calling thread gives: IMB_colormanagement_transform_threaded
\* equals IMB_colormanagement_transform on every float buffer, and a threaded
\* partial update equals the non-threaded partial update of the same rectangle.
C16_ThreadedEqualsUnthreaded ==
  /\ (pin.stage = "transform_out" /\ pin.kind = "float") =>
       /\ pin.buffer = IMB_colormanagement_transform(
                         LinearFill(pin.channels), RectW, RectH, pin.channels,
                         pin.from_colorspace, pin.to_colorspace, pin.predivide).float_buffer
       /\ pin.buffer = IMB_colormanagement_transform_threaded(
                         LinearFill(pin.channels), RectW, RectH, pin.channels,
                         pin.from_colorspace, pin.to_colorspace, pin.predivide).float_buffer
  /\ pin.stage = "out" =>
       /\ pin.display_buffer = RectUpdated(TRUE)
       /\ pin.display_buffer = RectUpdated(FALSE)

\* channel c of source pixel (x, y) of the inputs in pin: a byte of the byte
\* buffer, or a float of the linear buffer (the last channel for alpha)
RectSource(x, y, c) ==
  IF pin.source = "byte" THEN ByteFill[(y * RectW + x) * 4 + c]
  ELSE LinearFill(pin.channels)[(y * RectW + x) * pin.channels
                                + (IF c < pin.channels THEN c ELSE pin.channels - 1)]

\* the bytes that a conversion of format alone can give for channel c of
\* display pixel (x, y): the source value, or for 4 float channels the colour
\* divided by its alpha; alpha 255 where the source has none; the one channel
\* of a 1-channel source in all four bytes
RectConverted(x, y, c) ==
  IF pin.source = "byte" THEN {RectSource(x, y, c)}
  ELSE IF pin.channels = 4
    THEN IF c < 3
           THEN {unit_float_to_uchar_clamp(RectSource(x, y, c)),
                 unit_float_to_uchar_clamp(premul_to_straight(RectSource(x, y, c),
                                                              RectSource(x, y, 3)))}
           ELSE {unit_float_to_uchar_clamp(RectSource(x, y, 3))}
  ELSE IF pin.channels = 3
    THEN IF c < 3 THEN {unit_float_to_uchar_clamp(RectSource(x, y, c))} ELSE {255}
  ELSE {unit_float_to_uchar_clamp(RectSource(x, y, 0))}

\* the pixels that the operation of the state writes
RectWritten ==
  IF pin.stage = "full" THEN (0..(RectW - 1)) \X (0..(RectH - 1))
  ELSE (pin.rect.xmin..(pin.rect.xmax - 1)) \X (pin.rect.ymin..(pin.rect.ymax - 1))

\* C24: for an image buffer flagged as data, the full display buffer
\* computation and the partial update, from floats and from bytes, apply no
\* colour space or display transform: with dither 0, where the conversion to
\* bytes adds no noise, every display pixel they write is the source pixel
\* converted to bytes.
C24_DataBypassesTransforms ==
  (pin.stage \in {"out", "full"} /\ pin.is_data /\ pin.dither = 0 /\ pin.channels >= 3) =>
    \A q \in RectWritten, c \in 0..(DISPLAY_BUFFER_CHANNELS - 1) :
      pin.display_buffer[(q[2] * RectW + q[1]) * DISPLAY_BUFFER_CHANNELS + c]
        \in RectConverted(q[1], q[2], c)

(***************************************************************************)
(* Callers on several threads, one step per stretch between lock calls     *)
(***************************************************************************)
Callers == 1..NumCallers

\* the requests of the callers: both views, default or raised exposure
MtRequests == ViewSettingsSet("exposure") \X DisplaySettingsSet

InitMT ==
  /\ varied = "exposure"
  /\ ibuf = InitImBuf("float")
  /\ heap = [id \in 1..MaxObjs |-> FreeObj]
  /\ handles = [id \in 1..MaxObjs |-> 0]
  /\ curve_ts = 0
  /\ ret = Ret("other", "", NULL, NULL, FALSE)
  /\ Idle

\* BLI_thread_lock(LOCK_COLORMANAGE) of a caller waiting at `at`
MtLock(t, at, to) ==
  /\ pc[t] = at
  /\ lock = 0
  /\ lock' = t
  /\ pc' = [pc EXCEPT ![t] = to]
  /\ UNCHANGED <<ibuf, heap, handles, curve_ts, varied, ret, loc, pin, catalog, passed>>

\* IMB_display_buffer_acquire up to BLI_thread_lock; no delayed update is
\* pending here, so this part takes no lock of its own
MtAcquireStart(t, q) ==
  /\ pc[t] = "idle" /\ loc[t].cache_handle = NULL
  /\ ibuf.invalid_rect.xmin = ibuf.invalid_rect.xmax
  /\ \E u \in {acquire_unlocked(ibuf, heap, curve_ts, q[1], q[2])} :
        /\ ibuf' = u.ibuf
        /\ heap' = u.heap
        /\ pc' = IF u.done THEN pc ELSE [pc EXCEPT ![t] = "a_lock"]
        /\ loc' = IF u.done THEN loc ELSE [loc EXCEPT ![t].q = q]
  /\ UNCHANGED <<handles, curve_ts, varied, ret, lock, pin, catalog, passed>>

MtAcquireLock(t) == MtLock(t, "a_lock", "a_crit")

\* IMB_display_buffer_acquire from BLI_thread_lock to BLI_thread_unlock
MtAcquireCrit(t) ==
  /\ pc[t] = "a_crit"
  /\ \E a \in {acquire_locked(ibuf, heap, curve_ts, loc[t].q[1], loc[t].q[2])} :
        /\ ibuf' = a.ibuf
        /\ heap' = a.heap
        /\ handles' = [handles EXCEPT ![a.cache_handle] = @ + 1]
        /\ loc' = [loc EXCEPT ![t] = [NoLoc EXCEPT !.cache_handle = a.cache_handle,
                                                    !.display_buffer = a.display_buffer]]
  /\ lock' = 0
  /\ pc' = [pc EXCEPT ![t] = "idle"]
  /\ UNCHANGED <<curve_ts, varied, ret, pin, catalog, passed>>

\* imb_partial_display_buffer_update_ex: "if (ibuf->display_buffer_flags)",
\* evaluated before the lock is taken
MtPartialTest(t, q) ==
  /\ pc[t] = "idle" /\ loc[t].cache_handle = NULL
  /\ IF ibuf.display_buffer_flags # NullBuf
       THEN /\ pc' = [pc EXCEPT ![t] = "p_lock"]
            /\ loc' = [loc EXCEPT ![t].q = q]
       ELSE UNCHANGED <<pc, loc, catalog, passed>>
  /\ UNCHANGED <<ibuf, heap, handles, curve_ts, varied, ret, lock, pin, catalog, passed>>

MtPartialLock(t) == MtLock(t, "p_lock", "p_crit")

\* imb_partial_display_buffer_update_ex from BLI_thread_lock to BLI_thread_unlock
MtPartialCrit(t) ==
  /\ pc[t] = "p_crit"
  /\ \E l \in {partial_update_locked(ibuf, heap, curve_ts, loc[t].q[1], loc[t].q[2])} :
        /\ ibuf' = l.ibuf
        /\ heap' = l.heap
        /\ IF l.display_buffer # NULL
             THEN /\ handles' = [handles EXCEPT ![l.cache_handle] = @ + 1]
                  /\ loc' = [loc EXCEPT ![t].cache_handle = l.cache_handle,
                                        ![t].display_buffer = l.display_buffer,
                                        ![t].buffer_width = l.buffer_width]
                  /\ pc' = [pc EXCEPT ![t] = "p_write"]
             ELSE /\ handles' = handles
                  /\ loc' = [loc EXCEPT ![t] = NoLoc]
                  /\ pc' = [pc EXCEPT ![t] = "idle"]
  /\ lock' = 0
  /\ UNCHANGED <<curve_ts, varied, ret, pin, catalog, passed>>

\* imb_partial_display_buffer_update_ex, "if (display_buffer)": the pixels of
\* the whole image are written without the lock, then the handle is released
MtPartialWrite(t) ==
  /\ pc[t] = "p_write"
  /\ LET written ==
           partial_update_write(ibuf, heap, loc[t].display_buffer, ibuf.rect_float, ibuf.rect,
                                loc[t].buffer_width, ibuf.x, 0, 0, loc[t].q[1], loc[t].q[2],
                                curve_ts, 0, 0, ibuf.x, ibuf.y, FALSE)
     IN heap' = [heap EXCEPT ![loc[t].display_buffer].rect = written]
  /\ pc' = [pc EXCEPT ![t] = "r_lock"]
  /\ UNCHANGED <<ibuf, handles, curve_ts, varied, ret, loc, lock, pin, catalog, passed>>

\* IMB_display_buffer_release: "if (cache_handle)"
MtReleaseStart(t) ==
  /\ pc[t] = "idle" /\ loc[t].cache_handle # NULL
  /\ pc' = [pc EXCEPT ![t] = "r_lock"]
  /\ UNCHANGED <<ibuf, heap, handles, curve_ts, varied, ret, loc, lock, pin, catalog, passed>>

MtReleaseLock(t) == MtLock(t, "r_lock", "r_crit")

\* IMB_display_buffer_release from BLI_thread_lock to BLI_thread_unlock
MtReleaseCrit(t) ==
  /\ pc[t] = "r_crit"
  /\ heap' = colormanage_cache_handle_release(heap, loc[t].cache_handle)
  /\ handles' = [handles EXCEPT ![loc[t].cache_handle] = @ - 1]
  /\ loc' = [loc EXCEPT ![t] = NoLoc]
  /\ lock' = 0
  /\ pc' = [pc EXCEPT ![t] = "idle"]
  /\ UNCHANGED <<ibuf, curve_ts, varied, ret, pin, catalog, passed>>

\* colormanage_cache_free, called when the image buffer is freed or its pixels
\* are replaced: no caller is inside a call on it
MtCacheFree(t) ==
  /\ \A u \in Callers : pc[u] = "idle"
  /\ ibuf.display_buffer_flags # NullBuf \/ ~ibuf.moviecache.null
  /\ \E f \in {colormanage_cache_free(ibuf, heap)} : ibuf' = f.ibuf /\ heap' = f.heap
  /\ UNCHANGED <<handles, curve_ts, varied, ret, pc, loc, lock, pin, catalog, passed>>

MtMarkInvalid(t) ==
  /\ pc[t] = "idle"
  /\ ~Invalid(ibuf)
  /\ ibuf' = [ibuf EXCEPT !.userflags = @ \cup {"IB_DISPLAY_BUFFER_INVALID"}]
  /\ UNCHANGED <<heap, handles, curve_ts, varied, ret, pc, loc, lock, pin, catalog, passed>>

NextMT ==
  \E t \in Callers :
    \/ \E q \in MtRequests : MtAcquireStart(t, q)
    \/ MtAcquireLock(t)
    \/ MtAcquireCrit(t)
    \/ \E q \in MtRequests : MtPartialTest(t, q)
    \/ MtPartialLock(t)
    \/ MtPartialCrit(t)
    \/ MtPartialWrite(t)
    \/ MtReleaseStart(t)
    \/ MtReleaseLock(t)
    \/ MtReleaseCrit(t)
    \/ MtCacheFree(t)
    \/ MtMarkInvalid(t)

SpecMT == InitMT /\ [][NextMT]_vars

\* the steps of caller t that read or write display_buffer_flags (testing,
\* allocating, clearing, freeing it) or get from, put into or release to the
\* block cache
MtCacheAccess(t) ==
  \/ MtAcquireCrit(t)
  \/ \E q \in MtRequests : MtPartialTest(t, q)
  \/ MtPartialCrit(t)
  \/ MtReleaseCrit(t)
  \/ MtCacheFree(t)

\* C10: every read and write of the flag array and every get, put and release
\* on the block cache is done by the caller that holds the global lock, in
\* acquire, partial update, release and cache free alike.
C10_CacheAccessUnderLock ==
  [][\A t \in Callers : MtCacheAccess(t) => lock = t]_vars

(***************************************************************************)
(* colormanagement_init and colormanagement_exit, over the configurations  *)
(* the engine can hand out                                                 *)
(***************************************************************************)
MaxCfgDisplays == 2
MaxCfgViews == 2

\* the sets of roles a configuration resolves
CfgRoleSets == {Roles, {}, {"scene_linear"}, {"texture_paint"}, Roles \ {"data"}}

RoleSpace(role) == <<"colorspace", 0, CHOOSE i \in DOMAIN RoleTable : RoleTable[i].role = role>>

CfgOf(nd, nv, rs) ==
  [null |-> FALSE,
   displays |-> [d \in 1..nd |->
                   [name |-> <<"display", d>>, views |-> [v \in 1..nv |-> <<"view", v>>]]],
   looks |-> <<>>,
   roles |-> [r \in Roles |-> IF r \in rs THEN RoleSpace(r) ELSE NoName]]

\* what OCIO_configCreateFromEnv or OCIO_configCreateFromFile can return: a
\* configuration with 0..MaxCfgDisplays displays of 0..MaxCfgViews views each
Configs ==
  {CfgOf(nd, nv, rs) : nd \in 0..MaxCfgDisplays, nv \in 0..MaxCfgViews, rs \in CfgRoleSets}

\* a configuration whose two displays list different views and share one,
\* with two looks
SharedViewsConfig ==
  [null |-> FALSE,
   displays |-> << [name |-> <<"display", 1>>, views |-> << <<"view", 1>>, <<"view", 2>> >>],
                   [name |-> <<"display", 2>>, views |-> << <<"view", 2>>, <<"view", 3>> >>] >>,
   looks |-> << [name |-> <<"look", "2">>, process_space |-> "look space"],
                [name |-> <<"look", "3">>, process_space |-> ""] >>,
   roles |-> [r \in Roles |-> RoleSpace(r)]]

\* OCIO_configCreateFallback: one display with one view, every role of this
\* file but "data"
OCIO_configCreateFallback == CfgOf(1, 1, Roles \ {"data"})

\* an init that loads what it is given and never falls back
colormanagement_init_no_fallback(cat, env_config, file_config) ==
  LET Load(config) ==
        [catalog |-> IF ~config.null THEN colormanage_load_config(cat, config) ELSE cat,
         config |-> config]
      Created(config) == Load(IF config.null THEN OCIO_configCreateFallback ELSE config)
  IN Created(IF ~env_config.null THEN env_config ELSE file_config)

\* env_config: what OCIO_configCreateFromEnv returns, NoConfig also when $OCIO
\* is not set; file_config: what OCIO_configCreateFromFile returns, NoConfig
\* also without a configuration directory.  config: the configuration that
\* was loaded last
colormanagement_init(cat, env_config, file_config) ==
  LET Checked(config, loaded) ==
        IF loaded.global_tot_display = 0 \/ loaded.global_tot_view = 0
          THEN [catalog |-> colormanage_load_config(colormanage_free_config(loaded),
                                                    OCIO_configCreateFallback),
                config |-> OCIO_configCreateFallback]
          ELSE [catalog |-> loaded, config |-> config]
      Load(config) ==
        Checked(config, IF ~config.null THEN colormanage_load_config(cat, config) ELSE cat)
      Created(config) == Load(IF config.null THEN OCIO_configCreateFallback ELSE config)
  IN Created(IF ~env_config.null THEN env_config ELSE file_config)

colormanagement_exit(cat) == colormanage_free_config(cat)

InitStartup ==
  /\ catalog = ZeroCatalog
  /\ pin = [stage |-> "start", config |-> NoConfig, reloaded |-> FALSE]
  /\ passed = {}
  /\ varied = "pixels"
  /\ ibuf = InitImBuf("float")
  /\ heap = [id \in 1..MaxObjs |-> FreeObj]
  /\ handles = [id \in 1..MaxObjs |-> 0]
  /\ curve_ts = 0
  /\ ret = Ret("other", "", NULL, NULL, FALSE)
  /\ pc = [t \in 1..NumCallers |-> "idle"]
  /\ lock = 0
  /\ loc = [t \in 1..NumCallers |-> NoLoc]

StartupInit(env_config, file_config) ==
  /\ pin.stage \in {"start", "exited"}
  /\ \E i \in {colormanagement_init(catalog, env_config, file_config)} :
        /\ catalog' = i.catalog
        /\ pin' = [stage |-> "loaded", config |-> i.config,
                   reloaded |-> (pin.stage = "exited")]
  /\ UNCHANGED <<ibuf, heap, handles, curve_ts, varied, ret, pc, loc, lock, passed>>

StartupExit ==
  /\ pin.stage = "loaded"
  /\ catalog' = colormanagement_exit(catalog)
  /\ pin' = [pin EXCEPT !.stage = "exited"]
  /\ UNCHANGED <<ibuf, heap, handles, curve_ts, varied, ret, pc, loc, lock, passed>>

NextStartup ==
  \/ \E env_config \in Configs \cup {NoConfig, SharedViewsConfig},
        file_config \in {NoConfig, ModelConfig} :
       StartupInit(env_config, file_config)
  \/ StartupExit

SpecStartup == InitStartup /\ [][NextStartup]_vars

\* C17: after colormanagement_init returns the catalog has at least one
\* display and at least one view, whatever configuration was found first (one
\* with no displays, one whose displays have no views, or none at all).
C17_CatalogNeverEmpty ==
  pin.stage = "loaded" =>
    /\ catalog.global_tot_display >= 1 /\ Len(catalog.displays) >= 1
    /\ catalog.global_tot_view >= 1 /\ Len(catalog.views) >= 1

\* the first configuration had no display or no view and the fallback
\* configuration was loaded in its place
C17_Witness ==
  /\ pin.stage = "loaded"
  /\ pin.config = OCIO_configCreateFallback
  /\ Len(catalog.displays) = 1 /\ Len(catalog.views) = 1

\* C20: after a configuration was loaded, a role that neither its name nor
\* its backup role resolves in that configuration has an empty colour space
\* name.
C20_UnresolvedRoleIsEmpty ==
  pin.stage = "loaded" =>
    \A i \in DOMAIN RoleTable :
      (/\ OCIO_configGetColorSpace(pin.config, RoleTable[i].role) = NoName
       /\ \/ RoleTable[i].backup_role = NoRole
          \/ OCIO_configGetColorSpace(pin.config, RoleTable[i].backup_role) = NoName)
      => catalog.roles[RoleTable[i].global] = NoName

(***************************************************************************)
(* Delayed partial updates of an image of RectW x RectH pixels             *)
(***************************************************************************)
DelayedImBuf ==
  [InitImBuf("float") EXCEPT !.x = RectW, !.y = RectH, !.rect_float = LinearFill(4)]

PixelsOf(r) == {<<x, y>> : x \in r.xmin..(r.xmax - 1), y \in r.ymin..(r.ymax - 1)}

InitDelayed ==
  /\ varied = "pixels"
  /\ ibuf = DelayedImBuf
  /\ heap = [id \in 1..MaxObjs |-> FreeObj]
  /\ handles = [id \in 1..MaxObjs |-> 0]
  /\ curve_ts = 0
  /\ ret = Ret("other", "", NULL, NULL, FALSE)
  /\ Idle

\* a tool that painted rectangle r asks for a refresh at the next acquire
DelayedUpdate(r) ==
  /\ ibuf' = IMB_partial_display_buffer_update_delayed(ibuf, r.xmin, r.ymin, r.xmax, r.ymax)
  /\ passed' = passed \cup PixelsOf(r)
  /\ ret' = Ret("other", "", NULL, NULL, FALSE)
  /\ UNCHANGED <<heap, handles, curve_ts, varied, pc, loc, lock, pin, catalog>>

\* IMB_display_buffer_acquire; unless it returns early it consumes the
\* pending rectangle
DelayedAcquire(vs, ds) ==
  /\ HandleCount < MaxHandles
  /\ \E a \in {IMB_display_buffer_acquire(ibuf, heap, curve_ts, vs, ds)} :
        /\ ibuf' = a.ibuf
        /\ heap' = a.heap
        /\ handles' = IF a.cache_handle # NULL
                        THEN [handles EXCEPT ![a.cache_handle] = @ + 1] ELSE handles
        /\ ret' = Ret("acquire", a.result, a.display_buffer, a.found, Invalid(ibuf))
        /\ passed' = IF a.result \in {"null", "rect"} THEN passed ELSE {}
  /\ UNCHANGED <<curve_ts, varied, pc, loc, lock, pin, catalog>>

NextDelayed ==
  \/ \E r \in Rects(RectW, RectH) : DelayedUpdate(r)
  \/ \E ds \in DisplaySettingsSet : DelayedAcquire(BaseViewSettings(1, varied), ds)
  \/ \E id \in 1..MaxObjs : Release(id)

SpecDelayed == InitDelayed /\ [][NextDelayed]_vars

\* pixel p lies in the rectangle
InRcti(p, rct) == rct.xmin <= p[1] /\ p[1] < rct.xmax /\ rct.ymin <= p[2] /\ p[2] < rct.ymax

\* C11: the invalid rectangle of the image buffer contains every pixel of
\* every rectangle passed to the delayed update since the pending rectangle
\* was last consumed, and a delayed update touches no display buffer, no cache
\* entry and no "ever computed" bit.
C11_DelayedAccumulates ==
  /\ [](\A p \in passed : InRcti(p, ibuf.invalid_rect))
  /\ [][\A r \in Rects(RectW, RectH) :
          DelayedUpdate(r) => /\ heap' = heap
                              /\ ibuf'.moviecache = ibuf.moviecache
                              /\ ibuf'.display_buffer_flags = ibuf.display_buffer_flags]_vars

\* two rectangles that do not touch were passed after a display buffer was
\* computed, and the pending rectangle spans both
C11_Witness ==
  /\ {<<0, 0>>, <<RectW - 1, RectH - 1>>} \subseteq passed
  /\ <<1, 0>> \notin passed
  /\ Items # {}
  /\ InRcti(<<1, 0>>, ibuf.invalid_rect)

(***************************************************************************)
(* Calls with names that the configuration lacks, and processors for which *)
(* the engine has no transform                                             *)
(***************************************************************************)
UnknownName == <<"unknown">>

\* the first thing in a sequence of accesses that is not "none"
FirstFault(accesses) ==
  IF \E i \in DOMAIN accesses : accesses[i] # "none"
    THEN accesses[CHOOSE i \in DOMAIN accesses :
                    /\ accesses[i] # "none"
                    /\ \A j \in DOMAIN accesses : j < i => accesses[j] = "none"]
    ELSE "none"

\* look_descr->is_noop, on what colormanage_look_get_named returned
colormanage_use_look_access(look) ==
  IF colormanage_look_get_named(look).index = 0 THEN "null_deref" ELSE "none"

\* color_space->is_data, on what colormanage_colorspace_get_named returned
IMB_colormanagement_colorspace_processor_new_access(from_colorspace, to_colorspace) ==
  IF colormanage_colorspace_get_named(to_colorspace).index = 0 THEN "null_deref" ELSE "none"

\* display_space is tested before it is read; the look is not
IMB_colormanagement_display_processor_new_access(view_settings, display_settings) ==
  colormanage_use_look_access(view_settings.look)

\* display_buffer_flags[display - 1], an array of global_tot_display words
display_buffer_flags_access(display) ==
  IF display - 1 \in 0..(global_tot_display - 1) THEN "none" ELSE "out_of_bounds"

\* IMB_display_buffer_acquire on an image buffer with nothing cached and no
\* pending rectangle: colormanage_cache_get, then on the miss
\* colormanage_display_buffer_process and colormanage_cache_put
IMB_display_buffer_acquire_access(ib, view_settings, display_settings) ==
  LET display == colormanage_display_settings_to_cache(display_settings).display
      in_display_space == is_ibuf_rect_in_display_space(ib, view_settings, display_settings)
      early == ib.rect_float = NullBuf /\ ib.rect_colorspace # NoName /\ ib.channels = 4
               /\ in_display_space
      skip_transform == ib.rect_float = NullBuf /\ ib.rect_colorspace # NoName
                        /\ in_display_space
  IN IF ib.x = 0 \/ ib.y = 0 \/ early THEN "none"
     ELSE FirstFault(<< display_buffer_flags_access(display),
                        IF skip_transform THEN "none"
                        ELSE IMB_colormanagement_display_processor_new_access(
                               view_settings, display_settings),
                        display_buffer_flags_access(display) >>)

\* imb_partial_display_buffer_update_ex: colormanage_cache_get unless the image
\* is marked invalid, then display_buffer_flags[display_index] |= view_flag
imb_partial_display_buffer_update_ex_access(ib, view_settings, display_settings) ==
  LET display == colormanage_display_settings_to_cache(display_settings).display
  IN IF ib.display_buffer_flags = NullBuf THEN "none"
     ELSE FirstFault(<< IF ~Invalid(ib) THEN display_buffer_flags_access(display) ELSE "none",
                        display_buffer_flags_access(display) >>)

\* display->name and display->views.first, on what colormanage_display_get_named
\* returned
IMB_colormanagement_validate_settings_access(display_settings, view_settings) ==
  IF IMB_colormanagement_display_get_named_index(display_settings.display_device) = 0
    THEN "null_deref" ELSE "none"

\* the names a caller passes: known ones and one the configuration lacks
NamesInputs ==
  {[stage |-> "call", look |-> look, view |-> view, display |-> display,
    from_colorspace |-> from, to_colorspace |-> to, curves |-> curves,
    exposure |-> exposure] :
     look \in {global_looks[i].name : i \in DOMAIN global_looks} \cup {UnknownName},
     view \in {global_views[i].name : i \in DOMAIN global_views} \cup {UnknownName},
     display \in {global_displays[i].name : i \in DOMAIN global_displays} \cup {UnknownName},
     from \in {global_role_scene_linear, UnknownName},
     to \in {global_role_scene_linear, <<"colorspace", 1, 0>>, UnknownName},
     curves \in BOOLEAN, exposure \in {0, 1}}

NamesViewSettings ==
  [view_transform |-> pin.view, look |-> pin.look, exposure |-> pin.exposure, gamma |-> 1,
   flag |-> IF pin.curves THEN {"COLORMANAGE_VIEW_USE_CURVES"} ELSE {},
   curve_mapping |-> IF pin.curves THEN 1 ELSE NULL]
NamesDisplaySettings == [display_device |-> pin.display]

\* an image buffer whose flag array is allocated and which has nothing cached
NamesImBuf ==
  [InitImBuf("float") EXCEPT !.display_buffer_flags = [i \in 0..(global_tot_display - 1) |-> 0]]

InitNames ==
  /\ pin \in NamesInputs
  /\ varied = "pixels"
  /\ ibuf = InitImBuf("float")
  /\ heap = [id \in 1..MaxObjs |-> FreeObj]
  /\ handles = [id \in 1..MaxObjs |-> 0]
  /\ curve_ts = 0
  /\ ret = Ret("other", "", NULL, NULL, FALSE)
  /\ pc = [t \in 1..NumCallers |-> "idle"]
  /\ lock = 0
  /\ loc = [t \in 1..NumCallers |-> NoLoc]
  /\ catalog = LoadedCatalog
  /\ passed = {}

\* the call did what it does up to its first bad access; a processor is
\* handed back only by a call that had none
Called(api, access, processor) ==
  /\ pin.stage = "call"
  /\ pin' = [stage |-> "done", api |-> api, access |-> access,
             processor |-> IF access = "none" THEN processor ELSE NoProcessor,
             look |-> pin.look, view |-> pin.view, display |-> pin.display,
             from_colorspace |-> pin.from_colorspace, to_colorspace |-> pin.to_colorspace,
             curves |-> pin.curves, exposure |-> pin.exposure]
  /\ UNCHANGED <<ibuf, heap, handles, curve_ts, varied, ret, pc, loc, lock, catalog, passed>>

NamesColorspaceProcessorNew ==
  Called("IMB_colormanagement_colorspace_processor_new",
         IMB_colormanagement_colorspace_processor_new_access(pin.from_colorspace,
                                                             pin.to_colorspace),
         IMB_colormanagement_colorspace_processor_new(pin.from_colorspace, pin.to_colorspace))

NamesDisplayProcessorNew ==
  Called("IMB_colormanagement_display_processor_new",
         IMB_colormanagement_display_processor_new_access(NamesViewSettings,
                                                          NamesDisplaySettings),
         IMB_colormanagement_display_processor_new(NamesViewSettings, NamesDisplaySettings,
                                                   curve_ts))

NamesAcquire ==
  Called("IMB_display_buffer_acquire",
         IMB_display_buffer_acquire_access(ibuf, NamesViewSettings, NamesDisplaySettings),
         NoProcessor)

NamesPartialUpdate ==
  Called("IMB_partial_display_buffer_update",
         imb_partial_display_buffer_update_ex_access(NamesImBuf, NamesViewSettings,
                                                     NamesDisplaySettings),
         NoProcessor)

NamesValidate ==
  Called("IMB_colormanagement_validate_settings",
         IMB_colormanagement_validate_settings_access(NamesDisplaySettings, NamesViewSettings),
         NoProcessor)

\* the apply functions of a processor, on channel c of a pixel with value v
\* in that channel and alpha a
ApplyOps == {"apply_v4", "apply_v4_predivide", "apply_v3", "apply_pixel", "apply", "apply_byte"}

\* the channels per pixel an apply function can be called with
ApplyChannels(op) ==
  CASE op \in {"apply_v4", "apply_v4_predivide", "apply_byte"} -> {4}
    [] op = "apply_v3" -> {3}
    [] op \in {"apply_pixel", "apply"} -> 1..4

ProcessorApplied(cm_processor, op, v, a, c, channels) ==
  CASE op = "apply_v4" -> IMB_colormanagement_processor_apply_v4(cm_processor, v, c)
    [] op = "apply_v4_predivide" ->
         IMB_colormanagement_processor_apply_v4_predivide(cm_processor, v, a, c)
    [] op = "apply_v3" -> IMB_colormanagement_processor_apply_v3(cm_processor, v, c)
    [] op = "apply_pixel" ->
         IMB_colormanagement_processor_apply_pixel(cm_processor, v, c, channels)
    [] op = "apply" -> IMB_colormanagement_processor_apply(cm_processor, v, c, channels)
    [] op = "apply_byte" -> IMB_colormanagement_processor_apply_byte(cm_processor, v, c)

NamesApply(op, v, a, c, channels) ==
  /\ pin.stage = "done"
  /\ pin.access = "none"
  /\ ~pin.processor.null
  /\ channels \in ApplyChannels(op)
  /\ c < channels
  /\ pin' = [stage |-> "applied", api |-> pin.api, access |-> pin.access,
             processor |-> pin.processor, op |-> op, v |-> v, a |-> a, c |-> c,
             channels |-> channels,
             result |-> ProcessorApplied(pin.processor, op, v, a, c, channels),
             from_colorspace |-> pin.from_colorspace, to_colorspace |-> pin.to_colorspace]
  /\ UNCHANGED <<ibuf, heap, handles, curve_ts, varied, ret, pc, loc, lock, catalog, passed>>

NextNames ==
  \/ NamesColorspaceProcessorNew
  \/ NamesDisplayProcessorNew
  \/ NamesAcquire
  \/ NamesPartialUpdate
  \/ NamesValidate
  \/ \E op \in ApplyOps, v \in {40, 255}, a \in {100, 255}, c \in 0..3, channels \in 1..4 :
       NamesApply(op, v, a, c, channels)

SpecNames == InitNames /\ [][NextNames]_vars

\* C18: a call with a colour space, display, view or look name that the
\* configuration lacks completes: building a colour space processor or a
\* display processor, acquiring a display buffer, a partial update and
\* validating settings read nothing through the NULL that the lookup gave
\* and touch no word outside display_buffer_flags.
C18_UnknownNameIsHandled ==
  pin.stage \in {"done", "applied"} => pin.access = "none"

\* C19: when the engine has no transform for the names it is given, the
\* processor is made all the same, and each of its apply functions leaves the
\* pixel as the curve mapping alone makes it: as it was, when the processor
\* has no curve mapping or the function rejects the channel count.
C19_NoTransformPassesThrough ==
  /\ (/\ pin.stage \in {"done", "applied"}
      /\ pin.api = "IMB_colormanagement_colorspace_processor_new"
      /\ pin.access = "none"
      /\ create_colorspace_transform_processor(pin.from_colorspace, pin.to_colorspace).null)
       => ~pin.processor.null /\ pin.processor.cpu_processor.null
  /\ (pin.stage = "applied" /\ pin.processor.cpu_processor.null) =>
       LET curved == IF /\ ~pin.processor.curve_mapping.null
                        /\ pin.c < 3
                        /\ ~(pin.op = "apply_pixel" /\ pin.channels = 2)
                       THEN curve_mapping_apply(pin.processor.curve_mapping, pin.v)
                       ELSE pin.v
       IN pin.result = IF pin.op = "apply_byte" THEN unit_float_to_uchar_clamp(curved)
                       ELSE curved

\* a colour space processor made from a name the engine lacks was applied to
\* a colour channel of a pixel with alpha between none and full
C19_Witness ==
  /\ pin.stage = "applied"
  /\ pin.api = "IMB_colormanagement_colorspace_processor_new"
  /\ pin.from_colorspace = UnknownName
  /\ pin.processor.cpu_processor.null
  /\ pin.op = "apply_v4_predivide"
  /\ pin.c = 0
  /\ pin.a = 100
  /\ pin.result = pin.v

(***************************************************************************)
(* The list of colour spaces: colormanage_colorspace_add keeps it in       *)
(* case-insensitive name order and renumbers it                            *)
(***************************************************************************)
MaxColorSpaces == 4

\* names that differ in case only, and names that differ
CaseNames == {"ACES", "Linear", "linear", "Raw", "SRGB", "sRGB"}

\* tolower on every character of a name
StrToLower(name) ==
  CASE name = "ACES" -> "aces"
    [] name \in {"Linear", "linear"} -> "linear"
    [] name = "Raw" -> "raw"
    [] name \in {"SRGB", "sRGB"} -> "srgb"

\* the place of a lower-case name in byte order
StrRank(lower) ==
  CASE lower = "aces" -> 1 [] lower = "linear" -> 2 [] lower = "raw" -> 3 [] lower = "srgb" -> 4

\* negative, zero or positive
BLI_strcasecmp(s1, s2) == StrRank(StrToLower(s1)) - StrRank(StrToLower(s2))

\* an add that links the new colour space at the tail and numbers it alone
colormanage_colorspace_add_tail(colorspaces, name, is_data) ==
  Append(colorspaces, [name |-> name, index |-> Len(colorspaces) + 1, is_data |-> is_data])

\* prev_space stops at the first element whose name is greater than the new
\* one; the elements before it, the new one and the elements from it on are
\* numbered with one running counter
colormanage_colorspace_add(colorspaces, name, is_data) ==
  LET stop == {k \in DOMAIN colorspaces : BLI_strcasecmp(colorspaces[k].name, name) > 0}
      prev_space == IF stop = {} THEN Len(colorspaces) + 1
                    ELSE CHOOSE k \in stop : \A j \in stop : k <= j
      counter == prev_space
  IN [k \in 1..(Len(colorspaces) + 1) |->
        IF k < prev_space THEN [colorspaces[k] EXCEPT !.index = k]
        ELSE IF k = prev_space THEN [name |-> name, index |-> counter, is_data |-> is_data]
        ELSE [colorspaces[k - 1] EXCEPT !.index = counter + (k - prev_space)]]

\* BLI_findlink(&global_colorspaces, index - 1); NoColorSpace for NULL
colormanage_colorspace_get_indexed(colorspaces, index) ==
  IF index - 1 >= 0 /\ index - 1 < Len(colorspaces) THEN colorspaces[index] ELSE NoColorSpace

InitColorSpaces ==
  /\ pin = [stage |-> "colorspaces", colorspaces |-> <<>>]
  /\ varied = "pixels"
  /\ ibuf = InitImBuf("float")
  /\ heap = [id \in 1..MaxObjs |-> FreeObj]
  /\ handles = [id \in 1..MaxObjs |-> 0]
  /\ curve_ts = 0
  /\ ret = Ret("other", "", NULL, NULL, FALSE)
  /\ pc = [t \in 1..NumCallers |-> "idle"]
  /\ lock = 0
  /\ loc = [t \in 1..NumCallers |-> NoLoc]
  /\ catalog = LoadedCatalog
  /\ passed = {}

ColorSpaceAdd(name, is_data) ==
  /\ pin.stage = "colorspaces"
  /\ Len(pin.colorspaces) < MaxColorSpaces
  /\ pin' = [pin EXCEPT !.colorspaces = colormanage_colorspace_add(@, name, is_data)]
  /\ UNCHANGED <<ibuf, heap, handles, curve_ts, varied, ret, pc, loc, lock, catalog, passed>>

NextColorSpaces == \E name \in CaseNames : ColorSpaceAdd(name, name = "Raw")

SpecColorSpaces == InitColorSpaces /\ [][NextColorSpaces]_vars

\* C21: after any sequence of colormanage_colorspace_add calls the list is in
\* non-decreasing case-insensitive name order, its k-th element carries index
\* k, and colormanage_colorspace_get_indexed of the index of a colour space
\* gives that colour space.
C21_ColorSpacesSortedAndNumbered ==
  pin.stage = "colorspaces" =>
    \A k \in DOMAIN pin.colorspaces :
      /\ pin.colorspaces[k].index = k
      /\ k < Len(pin.colorspaces) =>
           BLI_strcasecmp(pin.colorspaces[k].name, pin.colorspaces[k + 1].name) <= 0
      /\ colormanage_colorspace_get_indexed(pin.colorspaces, pin.colorspaces[k].index)
           = pin.colorspaces[k]

\* the list is full and holds, after a name that sorts first, three names
\* that differ in case only, in the order in which they were added
C21_Witness ==
  /\ pin.stage = "colorspaces"
  /\ Len(pin.colorspaces) = MaxColorSpaces
  /\ pin.colorspaces[1].name = "ACES"
  /\ pin.colorspaces[2].name = "sRGB"
  /\ pin.colorspaces[3].name = "SRGB"
  /\ pin.colorspaces[4].name = "sRGB"

(***************************************************************************)
(* Names and indices of the displays, views and looks that were loaded     *)
(***************************************************************************)
\* X_get_indexed: BLI_findlink(list, index - 1), and its name; NoName for NULL
IndexedName(list, index) ==
  IF index - 1 >= 0 /\ index - 1 < Len(list) THEN list[index].name ELSE NoName

\* the indices of the list are 1..N in list order, and name -> index -> name
\* gives the name back for every name in the list
NumberedAndNamed(list) ==
  /\ \A k \in DOMAIN list : list[k].index = k
  /\ \A k \in DOMAIN list : IndexedName(list, NamedIndex(list, list[k].name)) = list[k].name
  /\ NamedIndex(list, UnknownName) = 0

\* C22: after a load, also one that follows a teardown, the indices of the
\* displays, of the views and of the looks are exactly 1..N, no two views
\* have the same name although displays share views, the name of the index
\* of a registered name is that name, and an unknown name has index 0.
C22_IndicesAndNamesRoundTrip ==
  pin.stage = "loaded" =>
    /\ NumberedAndNamed(catalog.displays)
    /\ NumberedAndNamed(catalog.views)
    /\ NumberedAndNamed(catalog.looks)
    /\ Len(catalog.displays) = catalog.global_tot_display
    /\ Len(catalog.views) = catalog.global_tot_view
    /\ Len(catalog.looks) = catalog.global_tot_looks
    /\ \A i, j \in DOMAIN catalog.views :
         catalog.views[i].name = catalog.views[j].name => i = j

\* a reload after a teardown gave two displays that share a view, three views
\* and three looks
C22_Witness ==
  /\ pin.stage = "loaded"
  /\ pin.reloaded
  /\ Len(catalog.displays) = 2
  /\ Len(catalog.views) = 3
  /\ Len(catalog.looks) = 3
  /\ <<"view", 2>> \in {catalog.displays[1].views[k] : k \in DOMAIN catalog.displays[1].views}
                       \cap {catalog.displays[2].views[k] : k \in DOMAIN catalog.displays[2].views}

(***************************************************************************)
(* Looks whose name holds the separator " - "                              *)
(***************************************************************************)
MaxLookNameLen == 5
MaxLooksAdded == 1

\* names of up to MaxLookNameLen characters, and names that do not fit the
\* buffer of a look: one with the separator where the buffer ends, one with a
\* separator before that
LookChars == {"A", " ", "-"}
LongName(n, tail) == [k \in 1..n |-> "A"] \o tail
LookNames ==
  UNION {[1..n -> LookChars] : n \in 0..MaxLookNameLen}
    \cup {LongName(MAX_COLORSPACE_NAME - 3, <<" ", "-", " ", "A">>),
          LongName(2, <<" ", "-", " ">>) \o LongName(MAX_COLORSPACE_NAME, <<>>)}

InitLooks ==
  /\ catalog = ZeroCatalog
  /\ pin = [stage |-> "looks"]
  /\ passed = {}
  /\ varied = "pixels"
  /\ ibuf = InitImBuf("float")
  /\ heap = [id \in 1..MaxObjs |-> FreeObj]
  /\ handles = [id \in 1..MaxObjs |-> 0]
  /\ curve_ts = 0
  /\ ret = Ret("other", "", NULL, NULL, FALSE)
  /\ pc = [t \in 1..NumCallers |-> "idle"]
  /\ lock = 0
  /\ loc = [t \in 1..NumCallers |-> NoLoc]

LookAdd(name) ==
  /\ pin.stage = "looks"
  /\ catalog.global_tot_looks < MaxLooksAdded
  /\ catalog' = colormanage_look_add(catalog, name, "", FALSE)
  /\ UNCHANGED <<ibuf, heap, handles, curve_ts, varied, ret, pc, loc, lock, pin, passed>>

NextLooks == \E name \in LookNames : LookAdd(name)

SpecLooks == InitLooks /\ [][NextLooks]_vars

\* seq holds the separator from position o + 1 on
SeparatorAt(seq, o) ==
  /\ o + Len(LookSeparator) <= Len(seq)
  /\ \A k \in 1..Len(LookSeparator) : seq[o + k] = LookSeparator[k]

\* C23: a look whose name contains " - " has as view the text before the
\* first separator and as UI label the text after it; every other look has
\* an empty view and its full name as UI label.
C23_LookSeparatorParsed ==
  pin.stage = "looks" =>
    \A i \in DOMAIN catalog.looks :
      LET look == catalog.looks[i]
          seps == {o \in 0..Len(look.name) : SeparatorAt(look.name, o)}
      IN IF seps = {}
           THEN look.view = <<>> /\ look.ui_name = look.name
           ELSE \E o \in seps :
                  /\ \A q \in seps : o <= q
                  /\ look.view = [k \in 1..o |-> look.name[k]]
                  /\ look.ui_name = [k \in 1..(Len(look.name) - o - Len(LookSeparator)) |->
                                       look.name[o + Len(LookSeparator) + k]]
                  /\ look.view \o LookSeparator \o look.ui_name = look.name

\* a look named "A - A" was added: its view is "A" and its label is "A"
C23_Witness ==
  /\ pin.stage = "looks"
  /\ \E i \in DOMAIN catalog.looks :
       /\ catalog.looks[i].name = <<"A", " ", "-", " ", "A">>
       /\ catalog.looks[i].view = <<"A">>
       /\ catalog.looks[i].ui_name = <<"A">>

\* C25: applying a processor whose destination is a data space
\* (is_data_result) to a pixel or to a buffer does no transform work: the
\* value comes back as it went in, changed neither by the curve mapping nor
\* by the transform of the engine.
C25_DataResultAppliesNothing ==
  (pin.stage = "applied" /\ pin.processor.is_data_result) =>
    pin.result = IF pin.op = "apply_byte" THEN unit_float_to_uchar_clamp(pin.v) ELSE pin.v

\* C26: a colour space transform whose source name is empty, or whose source
\* and destination names are equal, leaves the buffer or the pixel as it was
\* and builds no processor, in IMB_colormanagement_transform,
\* _transform_threaded, _transform_byte, _transform_byte_threaded and
\* _transform_v4.
C26_EmptyOrEqualNamesDoNothing ==
  (/\ pin.stage = "transform_out"
   /\ (pin.from_colorspace = NoName \/ pin.from_colorspace = pin.to_colorspace)) =>
     /\ pin.buffer = TransformBuffer(pin.kind, pin.channels)
     /\ pin.processors = 0

\* a threaded byte transform between equal names has returned, and the same
\* request between two different names does change the buffer
C26_Witness ==
  /\ pin.stage = "transform_out"
  /\ pin.kind = "byte"
  /\ pin.do_threaded
  /\ pin.from_colorspace # NoName
  /\ pin.from_colorspace = pin.to_colorspace
  /\ pin.buffer = ByteFill
  /\ IMB_colormanagement_transform_byte_threaded(
       ByteFill, RectW, RectH, 4, pin.from_colorspace, <<"colorspace", 0, 0>>).byte_buffer
     # ByteFill

\* the lookup of colormanage_cache_get for the request q = <<view settings,
\* display settings>> on image buffer ib
CacheLookup(ib, q) ==
  colormanage_cache_get(ib, heap, colormanage_view_settings_to_cache(ib, q[1]),
                        colormanage_display_settings_to_cache(q[2]), curve_ts)

\* C27: while the "ever computed" bit of the requested (display, view) pair is
\* unset, colormanage_cache_get misses and does not ask the block cache (it
\* gets no cached ImBuf and takes no reference), also when the block cache
\* holds an entry of the key whose snapshot equals the request.
C27_UnsetBitMissesUnasked ==
  \A q \in Requests :
    (ibuf.display_buffer_flags # NullBuf /\ ~BitIsSet(ibuf, KeyOf(q[1], q[2]))) =>
      /\ CacheLookup(ibuf, q).display_buffer = NULL
      /\ CacheLookup(ibuf, q).cache_handle = NULL
      /\ CacheLookup(ibuf, q).found = NULL
      /\ CacheLookup(ibuf, q).heap = heap

\* the bit of a pair is unset while the block cache holds an entry of its key
\* with the snapshot of the request: the lookup misses, and with the bit set
\* it would return that entry
C27_Witness ==
  \E q \in Requests, it \in Items :
    /\ ibuf.display_buffer_flags # NullBuf
    /\ ~BitIsSet(ibuf, KeyOf(q[1], q[2]))
    /\ it.key = KeyOf(q[1], q[2])
    /\ heap[it.ibuf].data = RequestedSnapshot(ibuf, q[1], curve_ts)
    /\ CacheLookup(ibuf, q).display_buffer = NULL
    /\ CacheLookup([ibuf EXCEPT !.display_buffer_flags[it.key.display - 1] =
                                   BitOr(@, Pow2(it.key.view - 1))], q).display_buffer = it.ibuf

\* C28: a bit of the flag array is set by colormanage_cache_put alone: a step
\* that turns bit v of element d on is one that computed a display buffer for
\* display d and view v and stored it in the block cache of the image buffer,
\* so a set bit always stands for a buffer that was computed and stored.
C28_BitSetOnlyByCachePut ==
  [][\A d \in 1..NumDisplays, v \in 1..NumViews :
       LET key == [view |-> v, display |-> d]
       IN (~BitIsSet(ibuf, key) /\ BitIsSet(ibuf', key)) =>
            /\ ret'.op = "acquire"
            /\ ret'.result = "computed"
            /\ \E it \in ibuf'.moviecache.items :
                 it.key = key /\ it.ibuf = ret'.display_buffer]_vars

\* a display buffer of RectW x RectH pixels in which no byte was written yet
Unwritten == [i \in 0..(DISPLAY_BUFFER_CHANNELS * RectW * RectH - 1) |-> -1]

\* the bytes a work item wrote to the display buffer it got as Unwritten
WrittenBytes(display_buffer) == {i \in DOMAIN display_buffer : display_buffer[i] # -1}

\* the bytes of rows first .. last of a buffer of RectW pixels per row
RowBytes(first, last, channels) ==
  {i \in 0..(channels * RectW * RectH - 1) :
     first <= i \div (channels * RectW) /\ i \div (channels * RectW) <= last}

\* what the scanline job of a threaded partial update on the inputs in pin
\* writes
ScanlineWritten(scanline) ==
  WrittenBytes(
    partial_buffer_update_rect_thread_do(
      RectIb,
      [display_buffer |-> Unwritten,
       linear_buffer |-> IF pin.source = "linear" THEN LinearFill(pin.channels) ELSE NullBuf,
       byte_buffer |-> IF pin.source = "byte" THEN ByteFill ELSE NullBuf,
       display_stride |-> RectW, linear_stride |-> RectW,
       linear_offset_x |-> 0, linear_offset_y |-> 0,
       cm_processor |-> RectProcessor,
       xmin |-> pin.rect.xmin, ymin |-> pin.rect.ymin, xmax |-> pin.rect.xmax],
      scanline))

\* what the task of a row range writes in the full computation on the inputs
\* in pin
RangeWritten(task) ==
  WrittenBytes(
    do_display_buffer_apply_thread(
      FullIb,
      display_buffer_init_handle(
        FullIb,
        IF is_ibuf_rect_in_display_space(FullIb, RectViewSettings, RectDisplaySettings)
             /\ pin.source = "byte"
          THEN NoProcessor
          ELSE IMB_colormanagement_display_processor_new(RectViewSettings,
                                                         RectDisplaySettings, curve_ts),
        task.start_line, task.tot_line),
      Unwritten))

\* the buffers after the task of a row range of the threaded transform on the
\* inputs in pin
RangeTransformed(task) ==
  do_processor_transform_thread(
    processor_transform_init_handle(
      [cm_processor |-> IMB_colormanagement_colorspace_processor_new(pin.from_colorspace,
                                                                     pin.to_colorspace),
       width |-> RectW, height |-> RectH, channels |-> pin.channels,
       predivide |-> pin.predivide],
      task.start_line, task.tot_line),
    [byte_buffer |-> IF pin.kind = "byte" THEN ByteFill ELSE NullBuf,
     float_buffer |-> IF pin.kind = "float" THEN LinearFill(pin.channels) ELSE NullBuf])

\* every row of 0 .. buffer_lines - 1 is in exactly one range of the tasks
RowsOnce(tasks, buffer_lines) ==
  \A row \in 0..(buffer_lines - 1) :
    Cardinality({k \in DOMAIN tasks :
                   tasks[k].start_line <= row
                     /\ row < tasks[k].start_line + tasks[k].tot_line}) = 1

\* C29: in a threaded run every row of the range is the work of exactly one
\* work item and no two work items write the same output bytes: the job of a
\* scanline of a threaded partial update writes bytes of display row
\* ymin + scanline only, and the task of a row range of a full computation or
\* of a threaded transform touches only rows start_line ..
\* start_line + tot_line - 1 of its buffers.
C29_WorkItemsWriteOwnRows ==
  /\ (pin.stage = "out" /\ pin.do_threads) =>
       \A scanline \in 0..(pin.rect.ymax - pin.rect.ymin - 1) :
         ScanlineWritten(scanline)
           \subseteq RowBytes(pin.rect.ymin + scanline, pin.rect.ymin + scanline,
                              DISPLAY_BUFFER_CHANNELS)
  /\ pin.stage = "full" =>
       /\ RowsOnce(TaskRanges(RectH), RectH)
       /\ \A k \in DOMAIN TaskRanges(RectH) :
            LET task == TaskRanges(RectH)[k]
            IN RangeWritten(task)
                 = RowBytes(task.start_line, task.start_line + task.tot_line - 1,
                            DISPLAY_BUFFER_CHANNELS)
  /\ (pin.stage = "transform_out" /\ pin.do_threaded /\ pin.from_colorspace # NoName) =>
       /\ RowsOnce(TaskRanges(RectH), RectH)
       /\ \A k \in DOMAIN TaskRanges(RectH) :
            LET task == TaskRanges(RectH)[k]
                after == RangeTransformed(task)
                buffer == IF pin.kind = "byte" THEN after.byte_buffer ELSE after.float_buffer
            IN \A i \in DOMAIN buffer :
                 i \notin RowBytes(task.start_line, task.start_line + task.tot_line - 1,
                                   pin.channels)
                   => buffer[i] = TransformBuffer(pin.kind, pin.channels)[i]

(***************************************************************************)
(* The life of the processor of one request, and the work items that use it *)
(***************************************************************************)
MaxWorkLines == 3

WorkOps ==
  {"colormanage_display_buffer_process_ex", "colormanagement_transform_ex",
   "imb_partial_display_buffer_update_ex"}

\* a free that frees nothing
IMB_colormanagement_processor_free_nothing(cm_processor) == cm_processor

\* MEM_freeN(cm_processor), after its curve mapping and cpu processor
IMB_colormanagement_processor_free(cm_processor) ==
  [cm_processor EXCEPT !.live = FALSE, !.frees = @ + 1]

\* the work items of the request: one per row range of the task pool, or one
\* per scanline of the rectangle of a partial update
WorkItems(op, lines) ==
  IF op = "imb_partial_display_buffer_update_ex" THEN lines ELSE Len(TaskRanges(lines))

\* IMB_processor_apply_threaded and IMB_processor_apply_threaded_scanlines
\* return when the task pool has run every work item
processor_apply_threaded_returns(workers) ==
  \A k \in DOMAIN workers : workers[k] = "done"

\* a request: the function, whether it skips the transform (and has no
\* processor), whether it hands the work to the task pool (the full
\* computation always does), and the rows it works on
WorkInputs ==
  {[stage |-> "work", op |-> op, skip_transform |-> skip, do_threads |-> thr,
    lines |-> n, caller |-> "start",
    cm_processor |-> [null |-> TRUE, live |-> FALSE, frees |-> 0],
    workers |-> <<>>, stale |-> FALSE] :
     op \in WorkOps, skip \in BOOLEAN, thr \in BOOLEAN, n \in 1..MaxWorkLines}

InitWorkers ==
  /\ pin \in {w \in WorkInputs :
                /\ w.op = "colormanagement_transform_ex" => ~w.skip_transform
                /\ w.op = "colormanage_display_buffer_process_ex" => w.do_threads}
  /\ varied = "pixels"
  /\ ibuf = InitImBuf("float")
  /\ heap = [id \in 1..MaxObjs |-> FreeObj]
  /\ handles = [id \in 1..MaxObjs |-> 0]
  /\ curve_ts = 0
  /\ ret = Ret("other", "", NULL, NULL, FALSE)
  /\ pc = [t \in 1..NumCallers |-> "idle"]
  /\ lock = 0
  /\ loc = [t \in 1..NumCallers |-> NoLoc]
  /\ catalog = LoadedCatalog
  /\ passed = {}

\* cm_processor = IMB_colormanagement_..._processor_new(...), unless the
\* transform is skipped
WorkProcessorNew ==
  /\ pin.stage = "work" /\ pin.caller = "start"
  /\ pin' = [pin EXCEPT
               !.caller = "apply",
               !.cm_processor = IF pin.skip_transform THEN @
                                ELSE [null |-> FALSE, live |-> TRUE, frees |-> 0]]
  /\ UNCHANGED <<ibuf, heap, handles, curve_ts, varied, ret, pc, loc, lock, catalog, passed>>

\* the caller hands the work items to the task pool, or does the work itself
WorkApply ==
  /\ pin.stage = "work" /\ pin.caller = "apply"
  /\ pin' = IF pin.do_threads
              THEN [pin EXCEPT !.caller = "wait",
                               !.workers = [k \in 1..WorkItems(pin.op, pin.lines) |-> "queued"]]
              ELSE [pin EXCEPT !.caller = "free"]
  /\ UNCHANGED <<ibuf, heap, handles, curve_ts, varied, ret, pc, loc, lock, catalog, passed>>

\* a thread of the pool takes work item k: from here on it reads the
\* processor and writes its rows of the output
WorkerRun(k) ==
  /\ pin.stage = "work"
  /\ k \in DOMAIN pin.workers /\ pin.workers[k] = "queued"
  /\ pin' = [pin EXCEPT !.workers[k] = "running",
                        !.stale = @ \/ (~pin.cm_processor.null /\ ~pin.cm_processor.live)]
  /\ UNCHANGED <<ibuf, heap, handles, curve_ts, varied, ret, pc, loc, lock, catalog, passed>>

WorkerDone(k) ==
  /\ pin.stage = "work"
  /\ k \in DOMAIN pin.workers /\ pin.workers[k] = "running"
  /\ pin' = [pin EXCEPT !.workers[k] = "done",
                        !.stale = @ \/ (~pin.cm_processor.null /\ ~pin.cm_processor.live)]
  /\ UNCHANGED <<ibuf, heap, handles, curve_ts, varied, ret, pc, loc, lock, catalog, passed>>

\* the threaded apply returns to the caller
WorkJoin ==
  /\ pin.stage = "work" /\ pin.caller = "wait"
  /\ processor_apply_threaded_returns(pin.workers)
  /\ pin' = [pin EXCEPT !.caller = "free"]
  /\ UNCHANGED <<ibuf, heap, handles, curve_ts, varied, ret, pc, loc, lock, catalog, passed>>

\* if (cm_processor) IMB_colormanagement_processor_free(cm_processor), and
\* the function returns
WorkFree ==
  /\ pin.stage = "work" /\ pin.caller = "free"
  /\ pin' = [pin EXCEPT
               !.caller = "returned",
               !.cm_processor = IF ~pin.cm_processor.null
                                  THEN IMB_colormanagement_processor_free(@) ELSE @]
  /\ UNCHANGED <<ibuf, heap, handles, curve_ts, varied, ret, pc, loc, lock, catalog, passed>>

NextWorkers ==
  \/ WorkProcessorNew
  \/ WorkApply
  \/ \E k \in 1..MaxWorkLines : WorkerRun(k)
  \/ \E k \in 1..MaxWorkLines : WorkerDone(k)
  \/ WorkJoin
  \/ WorkFree

SpecWorkers == InitWorkers /\ [][NextWorkers]_vars

\* C30: the processor built for a request is freed once, and only when every
\* work item that uses it is done: no work item starts or ends on a freed
\* processor, and when the full computation, the threaded transform or the
\* threaded partial update has returned, every work item is done and the
\* processor, if one was built, has been freed exactly once.
C30_ProcessorFreedOnceAfterWorkers ==
  pin.stage = "work" =>
    /\ pin.cm_processor.frees <= 1
    /\ ~pin.stale
    /\ (~pin.cm_processor.null /\ ~pin.cm_processor.live) =>
         \A k \in DOMAIN pin.workers : pin.workers[k] = "done"
    /\ pin.caller = "returned" =>
         /\ \A k \in DOMAIN pin.workers : pin.workers[k] = "done"
         /\ ~pin.cm_processor.null =>
              (pin.cm_processor.frees = 1 /\ ~pin.cm_processor.live)

\* a threaded partial update of three scanlines with a processor has returned
C30_Witness ==
  /\ pin.stage = "work"
  /\ pin.op = "imb_partial_display_buffer_update_ex"
  /\ pin.caller = "returned"
  /\ Len(pin.workers) = 3
  /\ \A k \in DOMAIN pin.workers : pin.workers[k] = "done"
  /\ ~pin.cm_processor.null
  /\ pin.cm_processor.frees = 1

(***************************************************************************)
(* The cached cpu processors of a colour space and of a display            *)
(***************************************************************************)
MaxTeardowns == 1

\* the four cached pointers: to_scene_linear and from_scene_linear of one
\* ColorSpace and of one ColorManagedDisplay
CachedFields ==
  {"colorspace->to_scene_linear", "colorspace->from_scene_linear",
   "display->from_scene_linear", "display->to_scene_linear"}

\* the body under processor_lock without its second test of the pointer
cached_cpu_processor_create_unchecked(c, f) ==
  IF c.engine[f]
    THEN [c EXCEPT !.fields[f] = c.allocated + 1,
                   !.made[f] = @ + 1,
                   !.allocated = @ + 1]
    ELSE c

\* the body under processor_lock: if the pointer is still NULL the processor
\* is asked of the engine and, if there is one, its cpu processor is stored
cached_cpu_processor_create(c, f) ==
  IF c.fields[f] = NULL THEN cached_cpu_processor_create_unchecked(c, f) ELSE c

\* the engine has a transform for every pointer, for none, or for those of
\* the colour space alone
CachedEngines ==
  {[f \in CachedFields |-> b] : b \in BOOLEAN}
    \cup {[f \in CachedFields |->
             f \in {"colorspace->to_scene_linear", "colorspace->from_scene_linear"}]}

\* engine: whether the engine has a transform for the pointer; made: the cpu
\* processors stored in the pointer since the catalog was loaded; returned:
\* the pointers the callers got since then
InitCached ==
  /\ pin \in {[stage |-> "cached", fields |-> [f \in CachedFields |-> NULL],
               engine |-> e, made |-> [f \in CachedFields |-> 0], allocated |-> 0,
               returned |-> [f \in CachedFields |-> {}], processor_lock |-> 0,
               teardowns |-> 0] : e \in CachedEngines}
  /\ varied = "pixels"
  /\ ibuf = InitImBuf("float")
  /\ heap = [id \in 1..MaxObjs |-> FreeObj]
  /\ handles = [id \in 1..MaxObjs |-> 0]
  /\ curve_ts = 0
  /\ ret = Ret("other", "", NULL, NULL, FALSE)
  /\ pc = [t \in 1..NumCallers |-> "idle"]
  /\ lock = 0
  /\ loc = [t \in 1..NumCallers |-> [f |-> ""]]
  /\ catalog = LoadedCatalog
  /\ passed = {}

\* caller t enters the function of pointer f
CachedCall(t, f) ==
  /\ pc[t] = "idle"
  /\ pc' = [pc EXCEPT ![t] = "check"]
  /\ loc' = [loc EXCEPT ![t] = [f |-> f]]
  /\ UNCHANGED <<ibuf, heap, handles, curve_ts, varied, ret, lock, pin, catalog, passed>>

\* the first test of the pointer, without the lock
CachedCheck(t) ==
  /\ pc[t] = "check"
  /\ pc' = [pc EXCEPT ![t] = IF pin.fields[loc[t].f] = NULL THEN "lock" ELSE "return"]
  /\ UNCHANGED <<ibuf, heap, handles, curve_ts, varied, ret, loc, lock, pin, catalog, passed>>

\* BLI_mutex_lock(&processor_lock)
CachedLock(t) ==
  /\ pc[t] = "lock"
  /\ pin.processor_lock = 0
  /\ pin' = [pin EXCEPT !.processor_lock = t]
  /\ pc' = [pc EXCEPT ![t] = "locked"]
  /\ UNCHANGED <<ibuf, heap, handles, curve_ts, varied, ret, loc, lock, catalog, passed>>

CachedCreate(t) ==
  /\ pc[t] = "locked"
  /\ pin' = cached_cpu_processor_create(pin, loc[t].f)
  /\ pc' = [pc EXCEPT ![t] = "unlock"]
  /\ UNCHANGED <<ibuf, heap, handles, curve_ts, varied, ret, loc, lock, catalog, passed>>

\* BLI_mutex_unlock(&processor_lock)
CachedUnlock(t) ==
  /\ pc[t] = "unlock"
  /\ pin' = [pin EXCEPT !.processor_lock = 0]
  /\ pc' = [pc EXCEPT ![t] = "return"]
  /\ UNCHANGED <<ibuf, heap, handles, curve_ts, varied, ret, loc, lock, catalog, passed>>

\* return of the pointer as it is now
CachedReturn(t) ==
  /\ pc[t] = "return"
  /\ pin' = [pin EXCEPT !.returned[loc[t].f] = @ \cup {pin.fields[loc[t].f]}]
  /\ pc' = [pc EXCEPT ![t] = "idle"]
  /\ UNCHANGED <<ibuf, heap, handles, curve_ts, varied, ret, loc, lock, catalog, passed>>

\* colormanage_free_config and a new load, with no caller in a call: the
\* colour spaces and displays are freed and new ones made, their pointers NULL
CachedTeardown ==
  /\ \A t \in 1..NumCallers : pc[t] = "idle"
  /\ pin.teardowns < MaxTeardowns
  /\ pin' = [pin EXCEPT !.fields = [f \in CachedFields |-> NULL],
                        !.made = [f \in CachedFields |-> 0],
                        !.returned = [f \in CachedFields |-> {}],
                        !.teardowns = @ + 1]
  /\ UNCHANGED <<ibuf, heap, handles, curve_ts, varied, ret, pc, loc, lock, catalog, passed>>

NextCached ==
  \/ \E t \in 1..NumCallers :
       \/ \E f \in CachedFields : CachedCall(t, f)
       \/ CachedCheck(t)
       \/ CachedLock(t)
       \/ CachedCreate(t)
       \/ CachedUnlock(t)
       \/ CachedReturn(t)
  \/ CachedTeardown

SpecCached == InitCached /\ [][NextCached]_vars

\* C31: under every interleaving of callers that ask for the cached cpu
\* processor of the same colour space or display, the processor is made at
\* most once, every caller gets the same pointer, and the pointer, once not
\* NULL, stays as it is until the catalog is torn down.
C31_CachedProcessorMadeOnce ==
  /\ [](\A f \in CachedFields :
          /\ pin.made[f] <= 1
          /\ Cardinality(pin.returned[f]) <= 1)
  /\ [][\A f \in CachedFields :
          pin.fields[f] # NULL => (pin'.fields[f] = pin.fields[f] \/ CachedTeardown)]_vars

\* both callers found the pointer NULL in the first test and one of them is
\* under the lock after the other has stored the processor; the first has
\* its pointer already
C31_Witness ==
  \E t \in 1..NumCallers, f \in CachedFields :
    /\ pc[t] = "unlock"
    /\ pin.processor_lock = t
    /\ pin.made[f] = 1
    /\ loc[t].f = f
    /\ pin.returned[f] = {pin.fields[f]}
    /\ pin.fields[f] # NULL
    /\ pin.teardowns = 0

\* C32: the look of the settings is handed to the engine as a stage of the
\* display transform exactly when it is not the no-op look and its view is
\* empty or is the requested view; for the no-op look and for a look of
\* another view the engine gets the empty look name.
C32_LookUsedWhenCompatible ==
  (/\ pin.stage = "done"
   /\ pin.api = "IMB_colormanagement_display_processor_new"
   /\ colormanage_look_get_named(pin.look) # NoLook
   /\ ~pin.processor.cpu_processor.null) =>
     LET look_descr == colormanage_look_get_named(pin.look)
         real == /\ ~look_descr.is_noop
                 /\ (look_descr.view = <<>> \/ look_descr.view = pin.view)
     IN pin.processor.cpu_processor.look = IF real THEN pin.look ELSE <<>>

\* a display processor was built for view 2 with the look of view 1: the
\* engine got no look
C32_Witness ==
  /\ pin.stage = "done"
  /\ pin.api = "IMB_colormanagement_display_processor_new"
  /\ pin.view = <<"view", 2>>
  /\ colormanage_look_get_named(pin.look).view = <<"view", 1>>
  /\ ~pin.processor.cpu_processor.null
  /\ pin.processor.cpu_processor.look = <<>>

\* what an apply function gives for channel c of a pixel of n channels when
\* the curve mapping, if the processor has one, is evaluated first and the
\* transform of the engine, if there is one and n is at least 3, after it;
\* alpha is left alone
CurveThenEngine(cm_processor, op, v, a, c, n) ==
  LET colour == IF n >= 3 THEN c < 3 ELSE TRUE
      curved == IF ~cm_processor.curve_mapping.null /\ colour
                  THEN curve_mapping_apply(cm_processor.curve_mapping, v) ELSE v
      engine == ~cm_processor.cpu_processor.null /\ n >= 3 /\ colour
      transformed ==
        IF ~engine THEN curved
        ELSE IF op = "apply_v4_predivide" /\ a # 0 /\ a # 255
          THEN (OCIO_cpuProcessorApply(cm_processor.cpu_processor, (curved * 255) \div a)
                  * a) \div 255
        ELSE OCIO_cpuProcessorApply(cm_processor.cpu_processor, curved)
  IN IF op = "apply_byte" THEN unit_float_to_uchar_clamp(transformed) ELSE transformed

\* C33 as stated: every apply operation evaluates the curve mapping, when
\* the processor has one, before the transform of the engine, and calls the
\* engine only when the processor has a transform and the pixels have at
\* least 3 channels; with 1 or 2 channels the curve mapping alone runs.
C33_CurveThenEngineEveryApply ==
  pin.stage = "applied" =>
    pin.result = CurveThenEngine(pin.processor, pin.op, pin.v, pin.a, pin.c, pin.channels)

\* C33 (amended): the same, but for IMB_colormanagement_processor_apply_pixel
\* with 2 channels, a channel count the function rejects: there neither the
\* curve mapping nor the engine runs and the pixel stays as it is.
C33_CurveThenEngine ==
  pin.stage = "applied" =>
    pin.result = IF pin.op = "apply_pixel" /\ pin.channels = 2
                   THEN pin.v
                   ELSE CurveThenEngine(pin.processor, pin.op, pin.v, pin.a, pin.c,
                                        pin.channels)

\* a display processor with a curve mapping and an exposure was applied to a
\* buffer of 3 channels: the result is the engine's transform of the curved
\* value, which differs from the curve of the transformed value
C33_Witness ==
  /\ pin.stage = "applied"
  /\ pin.op = "apply"
  /\ pin.channels = 3
  /\ ~pin.processor.curve_mapping.null
  /\ ~pin.processor.cpu_processor.null
  /\ pin.processor.cpu_processor.scale = 2
  /\ pin.result = OCIO_cpuProcessorApply(
                    pin.processor.cpu_processor,
                    curve_mapping_apply(pin.processor.curve_mapping, pin.v))
  /\ pin.result # curve_mapping_apply(
                    pin.processor.curve_mapping,
                    OCIO_cpuProcessorApply(pin.processor.cpu_processor, pin.v))

\* the buffer that an acquire of request q finds in the cache when it enters
\* its locked part with image buffer ib and heap h (NULL: it finds none and
\* computes)
AcquireFindsIn(ib, h, cts, q) ==
  IF ib.display_buffer_flags = NullBuf \/ Invalid(ib) THEN NULL
  ELSE colormanage_cache_get(ib, h, colormanage_view_settings_to_cache(ib, q[1]),
                             colormanage_display_settings_to_cache(q[2]), cts).display_buffer

AcquireFinds(q) == AcquireFindsIn(ibuf, heap, curve_ts, q)

\* the items the block cache holds under the key of request q
KeyItems(ib, q) ==
  {it \in ib.moviecache.items :
     ~colormanage_hashcmp(
        it.key,
        colormanage_settings_to_key(colormanage_view_settings_to_cache(ib, q[1]),
                                    colormanage_display_settings_to_cache(q[2])))}

\* C34: of two callers inside IMB_display_buffer_acquire at once with the
\* same settings and nothing cached for them, the one that takes the lock
\* first computes the buffer and leaves it as the one entry of its key, found
\* by a lookup; the one that takes the lock after it finds that entry, gets
\* the same buffer and computes and stores nothing.
C34_ConcurrentAcquireComputesOnce ==
  [][\A u \in Callers : \A t \in Callers \ {u} :
       (pc[u] = "a_crit" /\ pc'[u] = "idle") =>
          /\ (pc[t] = "a_lock" /\ loc[t].q = loc[u].q /\ AcquireFinds(loc[u].q) = NULL) =>
                /\ ~heap[loc'[u].display_buffer].live
                /\ heap'[loc'[u].display_buffer].live
                /\ AcquireFindsIn(ibuf', heap', curve_ts', loc[u].q) = loc'[u].display_buffer
                /\ Cardinality(KeyItems(ibuf', loc[u].q)) = 1
          /\ (/\ loc[t].cache_handle # NULL
              /\ AcquireFinds(loc[u].q) = loc[t].cache_handle) =>
                /\ loc'[u].display_buffer = loc[t].display_buffer
                /\ loc'[u].cache_handle = loc[t].cache_handle
                /\ ibuf'.moviecache = ibuf.moviecache
                /\ \A id \in 1..MaxObjs : heap'[id].live = heap[id].live
                /\ heap'[loc[t].cache_handle].rect = heap[loc[t].cache_handle].rect
                /\ Cardinality(KeyItems(ibuf', loc[u].q)) = 1]_vars

\* the buffers cached for the pair of request q while the bit of the pair is
\* clear: computed, put, and invalidated since
Invalidated(q) ==
  {it.ibuf : it \in {it \in Items : it.key = KeyOf(q[1], q[2]) /\ ~BitIsSet(ibuf, it.key)}}

\* C35: a cached buffer of a pair whose bit was cleared after the buffer was
\* computed stays out of reach of IMB_display_buffer_acquire: whatever
\* operation comes next, an acquire for the pair after it does not return
\* that buffer as a cache hit.
C35_InvalidatedNeverReturned ==
  [][\A q \in Requests : \A old \in Invalidated(q) :
       \E a \in {IMB_display_buffer_acquire(ibuf', heap', curve_ts', q[1], q[2])} :
         ~(a.result = "hit" /\ a.display_buffer = old)]_vars

(***************************************************************************)
(* The two locks: LOCK_COLORMANAGE and processor_lock on the paths of      *)
(* acquire, partial update and release, one step per stretch between lock  *)
(* calls                                                                   *)
(***************************************************************************)
\* the callers ask for one view: which of the paths a call takes depends on
\* whether the buffer of its pair is found, not on the pair
LkViews == {1}

\* the locals of a caller for the lock paths: the call it is in, the view it
\* asks for, the handle the partial update or the release works on, and the
\* handle it holds from an acquire
NoLkLoc == [call |-> "", view |-> 0, cache_handle |-> NULL, held |-> NULL]

\* bytes: the image buffer has a byte buffer only; flags: display_buffer_flags
\* is allocated; bits: the views whose bit is set; items: the views with a
\* buffer in the block cache; invalid: IB_DISPLAY_BUFFER_INVALID; pending:
\* invalid_rect is not empty; cpu_processor: to_scene_linear_cpu_processor of
\* the colour space of the bytes is made
InitLocks ==
  /\ varied = "exposure"
  /\ ibuf = InitImBuf("float")
  /\ heap = [id \in 1..MaxObjs |-> FreeObj]
  /\ handles = [id \in 1..MaxObjs |-> 0]
  /\ curve_ts = 0
  /\ ret = Ret("other", "", NULL, NULL, FALSE)
  /\ pc = [t \in Callers |-> "idle"]
  /\ loc = [t \in Callers |-> NoLkLoc]
  /\ lock = 0
  /\ \E bytes \in BOOLEAN :
       pin = [stage |-> "locks", bytes |-> bytes, flags |-> FALSE, bits |-> {}, items |-> {},
              invalid |-> FALSE, pending |-> FALSE, cpu_processor |-> FALSE,
              processor_lock |-> 0]
  /\ catalog = LoadedCatalog
  /\ passed = {}

\* the locked part of IMB_display_buffer_acquire that returns at the hit
\* without BLI_thread_unlock
acquire_returns_hit_locked(found) == [computed |-> ~found, unlocked |-> ~found]

\* the two ways out of the locked part of IMB_display_buffer_acquire: the
\* return of the buffer found, and the return of the buffer computed and
\* put; each calls BLI_thread_unlock first
acquire_returns(found) == [computed |-> ~found, unlocked |-> TRUE]

\* where a caller goes when imb_partial_display_buffer_update_ex returns:
\* back into IMB_display_buffer_acquire, which empties invalid_rect and goes
\* on to its BLI_thread_lock, or out of the call
LkPartialReturns(t, p) ==
  IF loc[t].call = "acquire"
    THEN /\ pc' = [pc EXCEPT ![t] = "a_lock"]
         /\ loc' = [loc EXCEPT ![t].cache_handle = NULL]
         /\ pin' = [p EXCEPT !.pending = FALSE]
    ELSE /\ pc' = [pc EXCEPT ![t] = "idle"]
         /\ loc' = [loc EXCEPT ![t] = [NoLkLoc EXCEPT !.held = loc[t].held]]
         /\ pin' = p

\* IMB_display_buffer_acquire is called
LkAcquire(t, v) ==
  /\ pc[t] = "idle" /\ loc[t].held = NULL
  /\ pc' = [pc EXCEPT ![t] = "a_enter"]
  /\ loc' = [loc EXCEPT ![t].call = "acquire", ![t].view = v]
  /\ UNCHANGED <<ibuf, heap, handles, curve_ts, varied, ret, lock, pin, catalog, passed>>

\* its early returns: an image without pixels, or bytes already in display space
LkAcquireEarly(t) ==
  /\ pc[t] = "a_enter"
  /\ pin.bytes
  /\ pc' = [pc EXCEPT ![t] = "idle"]
  /\ loc' = [loc EXCEPT ![t] = NoLkLoc]
  /\ UNCHANGED <<ibuf, heap, handles, curve_ts, varied, ret, lock, pin, catalog, passed>>

\* "if (ibuf->invalid_rect.xmin != ibuf->invalid_rect.xmax)": the pending
\* rectangle is refreshed by a partial update, unless all buffers are marked
\* invalid, and emptied; then BLI_thread_lock
LkAcquirePending(t) ==
  /\ pc[t] = "a_enter"
  /\ IF pin.pending /\ ~pin.invalid
       THEN pc' = [pc EXCEPT ![t] = "p_test"] /\ pin' = pin
       ELSE pc' = [pc EXCEPT ![t] = "a_lock"] /\ pin' = [pin EXCEPT !.pending = FALSE]
  /\ UNCHANGED <<ibuf, heap, handles, curve_ts, varied, ret, loc, lock, catalog, passed>>

\* BLI_thread_lock(LOCK_COLORMANAGE): the caller goes on when no one holds it
LkLock(t, at, to) ==
  /\ pc[t] = at
  /\ lock = 0
  /\ lock' = t
  /\ pc' = [pc EXCEPT ![t] = to]
  /\ UNCHANGED <<ibuf, heap, handles, curve_ts, varied, ret, loc, pin, catalog, passed>>

LkAcquireLock(t) == LkLock(t, "a_lock", "a_crit")

\* IMB_display_buffer_acquire from BLI_thread_lock to its return
LkAcquireCrit(t) ==
  /\ pc[t] = "a_crit"
  /\ \E bits \in {IF pin.flags /\ ~pin.invalid THEN pin.bits ELSE {}} :
     \E r \in {acquire_returns(loc[t].view \in bits /\ loc[t].view \in pin.items)} :
       /\ pin' = [pin EXCEPT !.flags = TRUE,
                             !.invalid = IF pin.flags THEN FALSE ELSE @,
                             !.bits = IF r.computed THEN bits \cup {loc[t].view} ELSE bits,
                             !.items = IF r.computed THEN @ \cup {loc[t].view} ELSE @]
       /\ lock' = IF r.unlocked THEN 0 ELSE lock
  /\ pc' = [pc EXCEPT ![t] = "idle"]
  /\ loc' = [loc EXCEPT ![t] = [NoLkLoc EXCEPT !.held = loc[t].view]]
  /\ UNCHANGED <<ibuf, heap, handles, curve_ts, varied, ret, catalog, passed>>

\* IMB_partial_display_buffer_update is called
LkPartial(t, v) ==
  /\ pc[t] = "idle"
  /\ pc' = [pc EXCEPT ![t] = "p_test"]
  /\ loc' = [loc EXCEPT ![t].call = "partial", ![t].view = v]
  /\ UNCHANGED <<ibuf, heap, handles, curve_ts, varied, ret, lock, pin, catalog, passed>>

\* imb_partial_display_buffer_update_ex: "if (ibuf->display_buffer_flags)";
\* without flags there is no buffer and the function returns
LkPartialTest(t) ==
  /\ pc[t] = "p_test"
  /\ IF pin.flags
       THEN pc' = [pc EXCEPT ![t] = "p_lock"] /\ UNCHANGED <<loc, pin>>
       ELSE LkPartialReturns(t, pin)
  /\ UNCHANGED <<ibuf, heap, handles, curve_ts, varied, ret, lock, catalog, passed>>

LkPartialLock(t) == LkLock(t, "p_lock", "p_crit")

\* from BLI_thread_lock to BLI_thread_unlock: the lookup, the flags; with no
\* buffer found the function returns
LkPartialCrit(t) ==
  /\ pc[t] = "p_crit"
  /\ \E p \in {[pin EXCEPT !.bits = {loc[t].view}]} :
       IF ~pin.invalid /\ loc[t].view \in pin.bits /\ loc[t].view \in pin.items
         THEN /\ pc' = [pc EXCEPT ![t] = "p_write"]
              /\ loc' = [loc EXCEPT ![t].cache_handle = loc[t].view]
              /\ pin' = p
         ELSE LkPartialReturns(t, p)
  /\ lock' = 0
  /\ UNCHANGED <<ibuf, heap, handles, curve_ts, varied, ret, catalog, passed>>

\* "if (display_buffer)": the pixels are written without LOCK_COLORMANAGE; a
\* pixel of a byte source goes through colorspace_to_scene_linear_cpu_processor,
\* which takes processor_lock when the processor is not made yet
LkPartialWrite(t) ==
  /\ pc[t] = "p_write"
  /\ pc' = [pc EXCEPT ![t] = IF pin.bytes /\ ~pin.cpu_processor THEN "g_lock" ELSE "r_lock"]
  /\ UNCHANGED <<ibuf, heap, handles, curve_ts, varied, ret, loc, lock, pin, catalog, passed>>

\* BLI_mutex_lock(&processor_lock)
LkProcessorLock(t) ==
  /\ pc[t] = "g_lock"
  /\ pin.processor_lock = 0
  /\ pin' = [pin EXCEPT !.processor_lock = t]
  /\ pc' = [pc EXCEPT ![t] = "g_crit"]
  /\ UNCHANGED <<ibuf, heap, handles, curve_ts, varied, ret, loc, lock, catalog, passed>>

\* the processor is made if it still is not, BLI_mutex_unlock, and the
\* remaining pixels are written
LkProcessorCrit(t) ==
  /\ pc[t] = "g_crit"
  /\ pin' = [pin EXCEPT !.cpu_processor = TRUE, !.processor_lock = 0]
  /\ pc' = [pc EXCEPT ![t] = "r_lock"]
  /\ UNCHANGED <<ibuf, heap, handles, curve_ts, varied, ret, loc, lock, catalog, passed>>

\* IMB_display_buffer_release is called with the handle of an acquire
LkRelease(t) ==
  /\ pc[t] = "idle" /\ loc[t].held # NULL
  /\ pc' = [pc EXCEPT ![t] = "r_lock"]
  /\ loc' = [loc EXCEPT ![t].call = "release", ![t].cache_handle = loc[t].held]
  /\ UNCHANGED <<ibuf, heap, handles, curve_ts, varied, ret, lock, pin, catalog, passed>>

LkReleaseLock(t) == LkLock(t, "r_lock", "r_crit")

\* IMB_display_buffer_release from BLI_thread_lock to BLI_thread_unlock, and
\* the return of the function that called it
LkReleaseCrit(t) ==
  /\ pc[t] = "r_crit"
  /\ lock' = 0
  /\ IF loc[t].call = "release"
       THEN /\ pc' = [pc EXCEPT ![t] = "idle"]
            /\ loc' = [loc EXCEPT ![t] = NoLkLoc]
            /\ pin' = pin
       ELSE LkPartialReturns(t, pin)
  /\ UNCHANGED <<ibuf, heap, handles, curve_ts, varied, ret, catalog, passed>>

\* another area marks all display buffers invalid, or records a dirty region
LkMarkInvalid(t) ==
  /\ pc[t] = "idle"
  /\ ~pin.invalid
  /\ pin' = [pin EXCEPT !.invalid = TRUE]
  /\ UNCHANGED <<ibuf, heap, handles, curve_ts, varied, ret, pc, loc, lock, catalog, passed>>

LkUpdateDelayed(t) ==
  /\ pc[t] = "idle"
  /\ ~pin.pending
  /\ pin' = [pin EXCEPT !.pending = TRUE]
  /\ UNCHANGED <<ibuf, heap, handles, curve_ts, varied, ret, pc, loc, lock, catalog, passed>>

\* the steps of a caller inside a call that wait for nothing
LkRuns(t) ==
  \/ LkAcquireEarly(t)
  \/ LkAcquirePending(t)
  \/ LkAcquireCrit(t)
  \/ LkPartialTest(t)
  \/ LkPartialCrit(t)
  \/ LkPartialWrite(t)
  \/ LkProcessorCrit(t)
  \/ LkReleaseCrit(t)

\* the steps of a caller that take a lock
LkTakes(t) ==
  \/ LkAcquireLock(t)
  \/ LkPartialLock(t)
  \/ LkReleaseLock(t)
  \/ LkProcessorLock(t)

NextLocks ==
  \E t \in Callers :
    \/ \E v \in LkViews : LkAcquire(t, v)
    \/ \E v \in LkViews : LkPartial(t, v)
    \/ LkRelease(t)
    \/ LkMarkInvalid(t)
    \/ LkUpdateDelayed(t)
    \/ LkRuns(t)
    \/ LkTakes(t)

\* fair scheduling: a caller that can run does run, and a caller that waits
\* for a lock that becomes free again and again gets it
SpecLocks ==
  /\ InitLocks
  /\ [][NextLocks]_vars
  /\ \A t \in Callers : WF_vars(LkRuns(t)) /\ SF_vars(LkTakes(t))

\* C36: a caller outside a call holds neither lock (every return path of
\* acquire, partial update and release has released LOCK_COLORMANAGE); a
\* caller that is about to take LOCK_COLORMANAGE holds neither it nor
\* processor_lock, and a caller about to take processor_lock holds neither;
\* and under fair scheduling every call returns.
C36_LocksReleasedAndCallsReturn ==
  /\ [](\A t \in Callers : pc[t] = "idle" => lock # t /\ pin.processor_lock # t)
  /\ [](\A t \in Callers :
          pc[t] \in {"a_lock", "p_lock", "r_lock", "g_lock"}
            => lock # t /\ pin.processor_lock # t)
  /\ \A t \in Callers : (pc[t] # "idle") ~> (pc[t] = "idle")

\* one caller is inside the locked part of an acquire that finds the buffer
\* cached while the other, back from a partial update of bytes that made the
\* processor under processor_lock, waits for LOCK_COLORMANAGE to release
C36_Witness ==
  /\ pin.stage = "locks"
  /\ \E t \in Callers : \E u \in Callers \ {t} :
       /\ pc[t] = "a_crit" /\ lock = t
       /\ pin.flags /\ ~pin.invalid /\ loc[t].view \in pin.bits \cap pin.items
       /\ pc[u] = "r_lock" /\ loc[u].call = "partial"
       /\ pin.cpu_processor

\* the callers inside a partial update that found its buffer: before the
\* pixels are written, and after, up to the release of the handle
Updating ==
  {t \in Callers : pc[t] = "p_write" \/ (pc[t] \in {"r_lock", "r_crit"} /\ loc[t].q # <<>>)}

\* the references on buffer id that are not the block cache's own
Referenced(id) ==
  heap[id].refcounter + (IF \E it \in ibuf.moviecache.items : it.ibuf = id THEN 0 ELSE 1)

\* C37: from the lookup under the lock to the release of its handle, a
\* partial update owns a reference on the buffer it writes: the buffer is
\* allocated with its pixels, and it has an owner for every handle out on it,
\* whatever the other caller releases, looks up with another snapshot or puts
\* in its place.
C37_PartialUpdateHoldsReference ==
  \A t \in Updating :
    /\ loc[t].cache_handle # NULL
    /\ loc[t].display_buffer = loc[t].cache_handle
    /\ heap[loc[t].cache_handle].live
    /\ heap[loc[t].cache_handle].rect # NullBuf
    /\ handles[loc[t].cache_handle] >= 1
    /\ Referenced(loc[t].cache_handle) >= handles[loc[t].cache_handle]

\* a partial update is about to write into a buffer that the other caller,
\* asking with another exposure, has found with the wrong snapshot and
\* replaced in the block cache by a buffer of its own
C37_Witness ==
  \E t \in Callers : \E u \in Callers \ {t} :
    /\ pc[t] = "p_write"
    /\ \A it \in ibuf.moviecache.items : it.ibuf # loc[t].cache_handle
    /\ loc[u].cache_handle # NULL
    /\ loc[u].cache_handle # loc[t].cache_handle
    /\ \E it \in ibuf.moviecache.items : it.ibuf = loc[u].cache_handle
    /\ heap[loc[t].cache_handle].live

(***************************************************************************)
(* A tool that paints and records dirty regions while another caller is    *)
(* inside IMB_display_buffer_acquire                                       *)
(***************************************************************************)
PendW == 2
PendH == 1
MaxPaints == 2

PendImBuf ==
  [InitImBuf("float") EXCEPT
     !.x = PendW, !.y = PendH,
     !.rect_float = [k \in 0..(4 * PendW * PendH - 1) |-> IF k % 4 = 3 THEN 255 ELSE 40]]

\* the one request of the acquiring caller
PendRequest == <<BaseViewSettings(1, "pixels"), [display_device |-> <<"display", 1>>]>>

InitPending ==
  /\ varied = "pixels"
  /\ ibuf = PendImBuf
  /\ heap = [id \in 1..MaxObjs |-> FreeObj]
  /\ handles = [id \in 1..MaxObjs |-> 0]
  /\ curve_ts = 0
  /\ ret = Ret("other", "", NULL, NULL, FALSE)
  /\ pc = [t \in 1..NumCallers |-> "idle"]
  /\ lock = 0
  /\ loc = [t \in 1..NumCallers |-> NoLoc]
  /\ pin = [stage |-> "pending", paints |-> 0]
  /\ catalog = LoadedCatalog
  /\ passed = {}

\* the tool writes colour v to the pixels of rectangle r and records the
\* rectangle with IMB_partial_display_buffer_update_delayed; it takes no lock
PendPaint(r, v) ==
  /\ pin.paints < MaxPaints
  /\ \E painted \in {[ibuf EXCEPT !.rect_float =
                        [k \in DOMAIN @ |->
                           IF <<(k \div 4) % PendW, (k \div 4) \div PendW>> \in PixelsOf(r)
                              /\ k % 4 < 3
                             THEN v ELSE @[k]]]} :
       /\ painted # ibuf
       /\ ibuf' = IMB_partial_display_buffer_update_delayed(painted, r.xmin, r.ymin,
                                                            r.xmax, r.ymax)
  /\ passed' = passed \cup PixelsOf(r)
  /\ pin' = [pin EXCEPT !.paints = @ + 1]
  /\ ret' = Ret("other", "", NULL, NULL, FALSE)
  /\ UNCHANGED <<heap, handles, curve_ts, varied, pc, loc, lock, catalog>>

\* IMB_display_buffer_acquire up to "if (ibuf->invalid_rect.xmin !=
\* ibuf->invalid_rect.xmax)" and the evaluation of the arguments of the
\* partial update, the pending rectangle as it is now
PendAcquireStart(t) ==
  /\ pc[t] = "idle"
  /\ HandleCount < MaxHandles
  /\ loc' = [loc EXCEPT ![t].q = <<PendRequest[1], PendRequest[2], ibuf.invalid_rect>>]
  /\ pc' = [pc EXCEPT ![t] = IF ibuf.invalid_rect.xmin = ibuf.invalid_rect.xmax THEN "a_crit"
                              ELSE IF Invalid(ibuf) THEN "a_reset" ELSE "a_flush"]
  /\ passed' = passed \cap PixelsOf(ibuf.invalid_rect)
  /\ ret' = Ret("other", "", NULL, NULL, FALSE)
  /\ UNCHANGED <<ibuf, heap, handles, curve_ts, varied, lock, pin, catalog>>

\* the call of IMB_partial_display_buffer_update_threaded on the rectangle
PendAcquireFlush(t) ==
  /\ pc[t] = "a_flush"
  /\ \E u \in {IMB_partial_display_buffer_update_threaded(
                 ibuf, heap, curve_ts, ibuf.rect_float, ibuf.rect, ibuf.x, 0, 0,
                 loc[t].q[1], loc[t].q[2],
                 loc[t].q[3].xmin, loc[t].q[3].ymin, loc[t].q[3].xmax, loc[t].q[3].ymax)} :
       /\ ibuf' = u.ibuf
       /\ heap' = u.heap
  /\ pc' = [pc EXCEPT ![t] = "a_reset"]
  /\ UNCHANGED <<handles, curve_ts, varied, ret, loc, lock, pin, catalog, passed>>

\* BLI_rcti_init(&ibuf->invalid_rect, 0, 0, 0, 0)
PendAcquireReset(t) ==
  /\ pc[t] = "a_reset"
  /\ ibuf' = [ibuf EXCEPT !.invalid_rect = BLI_rcti_init(0, 0, 0, 0)]
  /\ pc' = [pc EXCEPT ![t] = "a_crit"]
  /\ UNCHANGED <<heap, handles, curve_ts, varied, ret, loc, lock, pin, catalog, passed>>

\* from BLI_thread_lock to the return of the display buffer
PendAcquireCrit(t) ==
  /\ pc[t] = "a_crit"
  /\ \E a \in {acquire_locked(ibuf, heap, curve_ts, loc[t].q[1], loc[t].q[2])} :
       /\ ibuf' = a.ibuf
       /\ heap' = a.heap
       /\ handles' = [handles EXCEPT ![a.cache_handle] = @ + 1]
       /\ ret' = Ret("acquire", a.result, a.display_buffer, a.found, Invalid(ibuf))
  /\ pc' = [pc EXCEPT ![t] = "idle"]
  /\ loc' = [loc EXCEPT ![t] = NoLoc]
  /\ UNCHANGED <<curve_ts, varied, lock, pin, catalog, passed>>

\* another area marks all display buffers invalid
PendMarkInvalid ==
  /\ ~Invalid(ibuf)
  /\ ibuf.display_buffer_flags # NullBuf
  /\ ibuf' = [ibuf EXCEPT !.userflags = @ \cup {"IB_DISPLAY_BUFFER_INVALID"}]
  /\ ret' = Ret("other", "", NULL, NULL, FALSE)
  /\ UNCHANGED <<heap, handles, curve_ts, varied, pc, loc, lock, pin, catalog, passed>>

NextPending ==
  \/ \E r \in Rects(PendW, PendH), v \in SrcVals : PendPaint(r, v)
  \/ PendAcquireStart(1)
  \/ PendAcquireFlush(1)
  \/ PendAcquireReset(1)
  \/ PendAcquireCrit(1)
  \/ PendMarkInvalid
  \/ \E id \in 1..MaxObjs : Release(id)

SpecPending == InitPending /\ [][NextPending]_vars

\* C38: when IMB_display_buffer_acquire returns a display buffer, every pixel
\* of a region recorded by IMB_partial_display_buffer_update_delayed before
\* or during the call is still inside the pending rectangle, or the buffer
\* returned has it as the current source pixel gives it.
C38_DirtyRegionNotLost ==
  (pin.stage = "pending" /\ ret.op = "acquire" /\ ret.result \in {"hit", "computed"}) =>
    \E fresh \in {colormanage_display_buffer_process(
                    ibuf, [k \in 0..(DISPLAY_BUFFER_CHANNELS * ibuf.x * ibuf.y - 1) |-> 0],
                    PendRequest[1], PendRequest[2], curve_ts)} :
      \A q \in passed :
        \/ q \in PixelsOf(ibuf.invalid_rect)
        \/ \A c \in 0..(DISPLAY_BUFFER_CHANNELS - 1) :
             heap[ret.display_buffer].rect[(q[2] * ibuf.x + q[1]) * DISPLAY_BUFFER_CHANNELS + c]
               = fresh[(q[2] * ibuf.x + q[1]) * DISPLAY_BUFFER_CHANNELS + c]

(***************************************************************************)
(* The flag word of a display and the masks of the views, over catalogs of *)
(* any number of views                                                     *)
(***************************************************************************)
MaxFlagViews == 34

\* the bits of an int and of an element of display_buffer_flags
FlagWordBits == 32

\* "1 << n" on an int, stored in an unsigned int, as the set of the bits of
\* the word that are 1: the bit n up to the sign bit; a shift by the width of
\* the type or more is undefined, and the builds give no bit at all or shift
\* by n modulo the width
ShiftedOne(n) ==
  IF n < FlagWordBits THEN {{n}}
  ELSE {{}, {n % FlagWordBits}}

\* the catalog that was loaded: global_tot_view views, global_tot_display
\* displays; pairs: the flags computed so far
InitFlags ==
  /\ varied = "exposure"
  /\ ibuf = InitImBuf("float")
  /\ heap = [id \in 1..MaxObjs |-> FreeObj]
  /\ handles = [id \in 1..MaxObjs |-> 0]
  /\ curve_ts = 0
  /\ ret = Ret("other", "", NULL, NULL, FALSE)
  /\ pc = [t \in 1..NumCallers |-> "idle"]
  /\ lock = 0
  /\ loc = [t \in 1..NumCallers |-> NoLoc]
  /\ \E tot_view \in 1..MaxFlagViews, tot_display \in 1..MaxCfgDisplays :
       pin = [stage |-> "flags", global_tot_view |-> tot_view,
              global_tot_display |-> tot_display, pairs |-> {}]
  /\ catalog = LoadedCatalog
  /\ passed = {}

\* colormanage_cache_get, colormanage_cache_put and the partial update work
\* out the place of the flag of (display, view): element display - 1 of the
\* array of global_tot_display words, mask 1 << (view - 1)
FlagOfPair(display, view) ==
  /\ pin.stage = "flags"
  /\ Cardinality(pin.pairs) < 2
  /\ display \in 1..pin.global_tot_display
  /\ view \in 1..pin.global_tot_view
  /\ \E view_flag \in ShiftedOne(view - 1) :
       pin' = [pin EXCEPT !.pairs = @ \cup {[display |-> display, view |-> view,
                                             index |-> display - 1,
                                             view_flag |-> view_flag]}]
  /\ pin' # pin
  /\ UNCHANGED <<ibuf, heap, handles, curve_ts, varied, ret, pc, loc, lock, catalog, passed>>

NextFlags ==
  \E display \in 1..MaxCfgDisplays, view \in 1..MaxFlagViews : FlagOfPair(display, view)

SpecFlags == InitFlags /\ [][NextFlags]_vars

\* C39: for every display and view of the catalog the flag element is inside
\* the array and the mask of the view is one bit of the word, and two
\* different pairs never have a bit of the same element in common.
C39_PairsHaveDistinctBits ==
  pin.stage = "flags" =>
    /\ \A p \in pin.pairs :
         /\ p.index \in 0..(pin.global_tot_display - 1)
         /\ \E n \in 0..(FlagWordBits - 1) : p.view_flag = {n}
    /\ \A p \in pin.pairs : \A o \in pin.pairs :
         (p.display # o.display \/ p.view # o.view)
           => (p.index # o.index \/ p.view_flag \cap o.view_flag = {})
====
